---- MODULE Spec2Model ----
(***************************************************************************)
(* Model of the VideoBling job pipeline: the job store (repository.py),   *)
(* the HTTP handlers that create, rerun and delete jobs (routes.py), the   *)
(* application start-up that resets and re-enqueues jobs (main.py), the    *)
(* persistent task queue and its workers (workers/queue.py) and the stage  *)
(* state machine execute_job (pipeline.py).                                *)
(*                                                                         *)
(* Every repository call that is followed by db.commit() is one atomic     *)
(* update of the store.  An external call (ffmpeg/ffprobe, ASR, LLM, video *)
(* service) either succeeds or raises; which of the two is chosen by \E.   *)
(***************************************************************************)
EXTENDS Integers, Sequences, FiniteSets, TLC

\* ------------------------------------------------------------------ bounds
\* Spec: the engine with the job API (create, rerun, delete), no restart
MaxJobs == 2
NumWorkers == 2
\* SpecSys: one worker, with process restart and worker crash
SysJobs == 2
SysRestarts == 1
SysCrashes == 1
\* SpecPool: a pool of workers on the persistent queue, with process restart
PoolWorkers == 2
PoolJobs == 1
PoolRestarts == 1
\* SpecApi: one worker, the job API with its form values, and source files
\* that disappear from the disk
ApiJobs == 2
\* SpecClient: the rounds of the query loop before the deadline has passed
MaxPolls == 2

Max(a, b) == IF a >= b THEN a ELSE b
JobIds == 1..Max(Max(MaxJobs, ApiJobs), Max(SysJobs, PoolJobs))
Workers == 1..Max(NumWorkers, PoolWorkers)

\* --------------------------------------------------------------- constants
STAGE_SEQUENCE ==
  <<"preprocessing", "asr", "transcript_polish", "script_gen",
    "video_submit", "video_polling", "postprocess">>

RUNNING_STATES ==
  {"preprocessing", "asr", "transcript_polish", "script_gen",
   "video_submit", "video_polling", "postprocess"}

TERMINAL_STATES == {"completed", "failed", "canceled"}

ARTIFACT_KINDS ==
  {"source_video", "asr_clip_audio", "transcript_raw", "transcript_polished",
   "hook_script_json", "hook_video_raw", "hook_video_norm", "final_video"}

RERUN_START_STAGES == RUNNING_STATES

\* The start_stage strings a rerun request may carry.
RequestStages == RUNNING_STATES \cup {"VIDEO_SUBMIT", " asr ", "unknown", "queued"}

\* The start stage of the reruns requested in SpecSys.
SysRerunStages == {"script_gen"}

\* The form values of POST /api/jobs: the defaults, and the values the
\* requests of SpecApi carry.
FormDefaults == {[asr_clip_seconds |-> 15, hook_clip_seconds |-> 5]}
ApiForms ==
  FormDefaults \cup {[asr_clip_seconds |-> 120, hook_clip_seconds |-> 20]}

\* File names inside a job directory (job_dir / name).
FileNames ==
  {"source", "asr_clip.wav", "transcript_raw.txt", "transcript_polished.txt",
   "hook_script.json", "hook_video_raw.mp4", "hook_video_norm.mp4",
   "final_video.mp4"}

\* ------------------------------------------------------------------ values
\* A message (event text, error text): what it says, about which artifact
\* kind and about which job.
Msg(text, kind, job) == [text |-> text, kind |-> kind, job |-> job]
None == Msg("None", "", 0)

\* The event log of a job is append-only and the engine never reads it; it is
\* kept as its length, its newest entry and the number of its entries
\* written by the start-up reset.
Event(status, message) == [status |-> status, message |-> message]
NoEvents == [count |-> 0, last |-> Event("", None), requeues |-> 0]

\* File content / external value: what it is, which job's upload or request
\* it stems from, and which producer its input stems from (0: no input).
Content(kind, by, src) == [kind |-> kind, by |-> by, src |-> src]
Absent == Content("absent", 0, 0)

\* variant: every job directory is the same directory
JobFileShared(j, name) == [job |-> 1, name |-> name]

\* A path: a file name inside the directory of a job.
JobFile(j, name) == [job |-> j, name |-> name]

EmptyMap == [k \in {} |-> 0]

\* ------------------------------------------------------------------- text
\* A Python str is the sequence of its characters.
Chars(name) ==
  CASE name = "preprocessing" -> <<"p", "r", "e", "p", "r", "o", "c", "e", "s", "s", "i", "n", "g">>
    [] name = "asr" -> <<"a", "s", "r">>
    [] name = "transcript_polish" -> <<"t", "r", "a", "n", "s", "c", "r", "i", "p", "t", "_", "p", "o", "l", "i", "s", "h">>
    [] name = "script_gen" -> <<"s", "c", "r", "i", "p", "t", "_", "g", "e", "n">>
    [] name = "video_submit" -> <<"v", "i", "d", "e", "o", "_", "s", "u", "b", "m", "i", "t">>
    [] name = "video_polling" -> <<"v", "i", "d", "e", "o", "_", "p", "o", "l", "l", "i", "n", "g">>
    [] name = "postprocess" -> <<"p", "o", "s", "t", "p", "r", "o", "c", "e", "s", "s">>
    [] name = "queued" -> <<"q", "u", "e", "u", "e", "d">>
    [] name = "completed" -> <<"c", "o", "m", "p", "l", "e", "t", "e", "d">>
    [] name = "failed" -> <<"f", "a", "i", "l", "e", "d">>
    [] name = "canceled" -> <<"c", "a", "n", "c", "e", "l", "e", "d">>
    [] name = "unknown" -> <<"u", "n", "k", "n", "o", "w", "n">>
    [] name = "VIDEO_SUBMIT" -> <<"V", "I", "D", "E", "O", "_", "S", "U", "B", "M", "I", "T">>
    [] name = " asr " -> <<" ", "a", "s", "r", " ">>

\* the strings of the model that are written as TLA+ strings
Names ==
  {"preprocessing", "asr", "transcript_polish", "script_gen", "video_submit",
   "video_polling", "postprocess", "queued", "completed", "failed", "canceled",
   "unknown", "VIDEO_SUBMIT", " asr "}

\* the TLA+ string of a character sequence ("?" for one that has none)
NameOf(text) ==
  IF \E n \in Names : Chars(n) = text
  THEN CHOOSE n \in Names : Chars(n) = text
  ELSE "?"

UpperCase == <<"A", "B", "C", "D", "E", "F", "G", "H", "I", "J", "K", "L", "M", "N", "O", "P", "Q", "R", "S", "T", "U", "V", "W", "X", "Y", "Z">>
LowerCase == <<"a", "b", "c", "d", "e", "f", "g", "h", "i", "j", "k", "l", "m", "n", "o", "p", "q", "r", "s", "t", "u", "v", "w", "x", "y", "z">>
Whitespace == {" ", "\t", "\n"}

\* str.lower() and str.upper(), character by character
lower(text) ==
  [i \in 1..Len(text) |->
     IF \E k \in 1..26 : UpperCase[k] = text[i]
     THEN LowerCase[CHOOSE k \in 1..26 : UpperCase[k] = text[i]]
     ELSE text[i]]

upper(text) ==
  [i \in 1..Len(text) |->
     IF \E k \in 1..26 : LowerCase[k] = text[i]
     THEN UpperCase[CHOOSE k \in 1..26 : LowerCase[k] = text[i]]
     ELSE text[i]]

\* str.strip(): without the leading and the trailing whitespace
RECURSIVE lstrip(_)
lstrip(text) ==
  IF text # <<>> /\ Head(text) \in Whitespace THEN lstrip(Tail(text)) ELSE text

RECURSIVE rstrip(_)
rstrip(text) ==
  IF text # <<>> /\ text[Len(text)] \in Whitespace
  THEN rstrip(SubSeq(text, 1, Len(text) - 1)) ELSE text

strip(text) == rstrip(lstrip(text))

\* Python values: a str with its characters, None, and an int with its
\* decimal digits
StrValue(text) == [type |-> "str", value |-> text]
NoneValue == [type |-> "NoneType", value |-> <<>>]
IntValue(digits) == [type |-> "int", value |-> digits]

\* bool(value) and str(value)
Truthy(value) ==
  CASE value.type = "NoneType" -> FALSE
    [] value.type = "int"      -> value.value # <<"0">>
    [] value.type = "str"      -> value.value # <<>>

str(value) ==
  IF value.type = "NoneType" THEN <<"N", "o", "n", "e">> ELSE value.value

VARIABLES
  jobs,      \* table jobs: id -> [status, error_message, meta, artifacts, source_path]
  events,    \* table job_events: id -> [count, last, requeues]
  fs,        \* job directories: id -> file name -> content
  queue,     \* the persistent huey queue: sequence of job ids
  worker,    \* the huey workers: position and locals of execute_job
  app,       \* the API process: [pc, queued_ids]
  nextId,    \* number of job ids handed out so far
  restarts,  \* number of API restarts so far
  crashes,   \* number of worker crashes so far
  call       \* the call of a helper or client function: argument, locals, result

vars == <<jobs, events, fs, queue, worker, app, nextId, restarts, crashes, call>>

NoCall == [fn |-> "", arg |-> "", done |-> FALSE, result |-> ""]

IdleWorker ==
  [pc |-> "idle", stage |-> 0, job |-> 0, start_stage |-> "",
   parent_job_id |-> 0, parent_meta |-> EmptyMap, parent_artifacts |-> EmptyMap,
   source_meta |-> Absent, task_id |-> Absent,
   \* history of the run, kept (with job, stage and start_stage) after it
   \* ended: the statuses it set, the stages whose work it called, how it
   \* ended and the message of the error raised
   trace |-> <<>>, worked |-> {}, exit |-> "", raised |-> None,
   \* the message of the exception the raised one was raised `from`
   cause |-> None]

Init ==
  /\ jobs = EmptyMap
  /\ events = [j \in JobIds |-> NoEvents]
  /\ fs = [j \in JobIds |-> [n \in FileNames |-> Absent]]
  /\ queue = <<>>
  /\ worker = [w \in Workers |-> IdleWorker]
  /\ app = [pc |-> "ready", queued_ids |-> <<>>]
  /\ nextId = 0
  /\ restarts = 0
  /\ crashes = 0
  /\ call = NoCall

\* ------------------------------------------------------------ repository.py
get_job(js, j) == j \in DOMAIN js

append_event(ev, j, status, message) ==
  [ev EXCEPT ![j] = [count |-> @.count + 1, last |-> Event(status, message),
                     requeues |-> @.requeues +
                                  (IF message.text = "restart requeue" THEN 1 ELSE 0)]]

create_job(js, j, source_path, asr_clip_seconds, hook_clip_seconds) ==
  [k \in DOMAIN js \cup {j} |->
     IF k = j
     THEN [status |-> "queued", error_message |-> None, meta |-> EmptyMap,
           artifacts |-> EmptyMap, source_path |-> source_path,
           asr_clip_seconds |-> asr_clip_seconds,
           hook_clip_seconds |-> hook_clip_seconds]
     ELSE js[k]]

delete_job(js, j) == [k \in DOMAIN js \ {j} |-> js[k]]

set_job_status(js, j, status) == [js EXCEPT ![j].status = status]

\* variant: the error message is stored, the status is left as it was
set_job_error_status_kept(js, j, error_message) ==
  [js EXCEPT ![j].error_message = error_message]

\* variant: the status is set, the error message is not stored
set_job_error_message_dropped(js, j, error_message) ==
  [js EXCEPT ![j].status = "failed"]

set_job_error(js, j, error_message) ==
  [js EXCEPT ![j].status = "failed", ![j].error_message = error_message]

\* variant: the stored dictionary is replaced by kwargs
DictReplace(d, kw) == kw

\* dict.update(kwargs)
DictUpdate(d, kw) ==
  [k \in DOMAIN d \cup DOMAIN kw |-> IF k \in DOMAIN kw THEN kw[k] ELSE d[k]]

patch_meta(js, j, kwargs) == [js EXCEPT ![j].meta = DictUpdate(@, kwargs)]

put_artifact(js, j, kind, path) ==
  [js EXCEPT ![j].artifacts = DictUpdate(@, [k \in {kind} |-> path])]

\* variant: every job that is not completed is reset
reset_unfinished_jobs_to_queued(js) ==
  [k \in DOMAIN js |->
     IF js[k].status # "completed" THEN [js[k] EXCEPT !.status = "queued"]
     ELSE js[k]]

reset_running_jobs_to_queued(js) ==
  [k \in DOMAIN js |->
     IF js[k].status \in RUNNING_STATES THEN [js[k] EXCEPT !.status = "queued"]
     ELSE js[k]]

\* ids in increasing order (created_at ascending) of the jobs in set S
RECURSIVE SortedSeq(_)
SortedSeq(S) ==
  IF S = {} THEN <<>>
  ELSE LET m == CHOOSE x \in S : \A y \in S : x <= y
       IN <<m>> \o SortedSeq(S \ {m})

list_queued_jobs(js) == SortedSeq({k \in DOMAIN js : js[k].status = "queued"})

\* ------------------------------------------------------------- pipeline.py
StageIndex(s) == CHOOSE i \in 1..Len(STAGE_SEQUENCE) : STAGE_SEQUENCE[i] = s

\* raw.strip().lower() of a string of the model
StripLower(raw) == NameOf(lower(strip(Chars(raw))))

\* variant: the value is trimmed but its case is kept
normalize_start_stage_cased(value) ==
  LET raw == strip(str(IF Truthy(value) THEN value
                       ELSE StrValue(Chars("preprocessing"))))
  IN IF \E i \in 1..Len(STAGE_SEQUENCE) : Chars(STAGE_SEQUENCE[i]) = raw
     THEN STAGE_SEQUENCE[CHOOSE i \in 1..Len(STAGE_SEQUENCE) :
                           Chars(STAGE_SEQUENCE[i]) = raw]
     ELSE "preprocessing"

\* _normalize_start_stage(value)
normalize_start_stage_of(value) ==
  LET raw == lower(strip(str(IF Truthy(value) THEN value
                             ELSE StrValue(Chars("preprocessing")))))
  IN IF \E i \in 1..Len(STAGE_SEQUENCE) : Chars(STAGE_SEQUENCE[i]) = raw
     THEN STAGE_SEQUENCE[CHOOSE i \in 1..Len(STAGE_SEQUENCE) :
                           Chars(STAGE_SEQUENCE[i]) = raw]
     ELSE "preprocessing"

\* _normalize_start_stage(job_meta.get("rerun_start_stage"))
normalize_start_stage(meta) ==
  normalize_start_stage_of(IF "rerun_start_stage" \in DOMAIN meta
                           THEN StrValue(Chars(meta["rerun_start_stage"]))
                           ELSE NoneValue)

\* variant: the comparison is strict
should_run_stage_strict(start_stage, stage) == StageIndex(stage) > StageIndex(start_stage)

should_run_stage(start_stage, stage) == StageIndex(stage) >= StageIndex(start_stage)

\* probe_video: the metadata is determined by the bytes of the file
probe_video(content) == Content("video_meta", content.by, 0)

\* _video_meta_from_dict(_as_dict(parent_meta.get("source_meta")))
video_meta_from_dict(meta) ==
  IF "source_meta" \in DOMAIN meta /\ meta["source_meta"].kind = "video_meta"
  THEN meta["source_meta"] ELSE Absent

ReadFile(files, path) == files[path.job][path.name]
WriteFile(files, path, content) == [files EXCEPT ![path.job][path.name] = content]

\* --------------------------------------------------------------- routes.py
\* POST /api/jobs: save the upload, create the job, commit, enqueue
CreateJob(max_jobs, clip_seconds) ==
  /\ app.pc = "ready"
  /\ nextId < max_jobs
  /\ \E form \in clip_seconds :
     LET j == nextId + 1
         source_path == JobFile(j, "source")
     IN /\ fs' = WriteFile(fs, source_path, Content("upload", j, 0))
        /\ jobs' = create_job(jobs, j, source_path,
                              form.asr_clip_seconds, form.hook_clip_seconds)
        /\ events' = append_event(events, j, "queued", Msg("queued", "", j))
        /\ queue' = Append(queue, j)
        /\ nextId' = j
  /\ UNCHANGED <<worker, app, restarts, crashes, call>>

\* variant: the rerun gets the form's default clip seconds, not its parent's
RerunJobFormDefaults(max_jobs, parent, raw) ==
  /\ app.pc = "ready"
  /\ nextId < max_jobs
  /\ get_job(jobs, parent)
  /\ StripLower(raw) \in RERUN_START_STAGES
  /\ ReadFile(fs, jobs[parent].source_path) # Absent
  /\ LET r == nextId + 1
         rerun_source_path == JobFile(r, jobs[parent].source_path.name)
         created == create_job(jobs, r, rerun_source_path, 15, 5)
     IN /\ fs' = WriteFile(fs, rerun_source_path, ReadFile(fs, jobs[parent].source_path))
        /\ jobs' = patch_meta(created, r,
                     [k \in {"rerun_of_job_id", "rerun_start_stage"} |->
                        IF k = "rerun_of_job_id" THEN parent ELSE StripLower(raw)])
        /\ events' = append_event(events, r, "queued", Msg("queued", "", r))
        /\ queue' = Append(queue, r)
        /\ nextId' = r
  /\ UNCHANGED <<worker, app, restarts, crashes, call>>

\* variant: the rerun takes its parent's source file as its own, uncopied
RerunJobSharedSource(max_jobs, parent, raw) ==
  /\ app.pc = "ready"
  /\ nextId < max_jobs
  /\ get_job(jobs, parent)
  /\ StripLower(raw) \in RERUN_START_STAGES
  /\ ReadFile(fs, jobs[parent].source_path) # Absent
  /\ LET r == nextId + 1
         created == create_job(jobs, r, jobs[parent].source_path,
                               jobs[parent].asr_clip_seconds,
                               jobs[parent].hook_clip_seconds)
     IN /\ fs' = fs
        /\ jobs' = patch_meta(created, r,
                     [k \in {"rerun_of_job_id", "rerun_start_stage"} |->
                        IF k = "rerun_of_job_id" THEN parent ELSE StripLower(raw)])
        /\ events' = append_event(events, r, "queued", Msg("queued", "", r))
        /\ queue' = Append(queue, r)
        /\ nextId' = r
  /\ UNCHANGED <<worker, app, restarts, crashes, call>>

\* POST /api/jobs/{job_id}/rerun
RerunJob(max_jobs, parent, raw) ==
  /\ app.pc = "ready"
  /\ nextId < max_jobs
  /\ get_job(jobs, parent)
  /\ StripLower(raw) \in RERUN_START_STAGES
  /\ ReadFile(fs, jobs[parent].source_path) # Absent
  /\ LET r == nextId + 1
         rerun_source_path == JobFile(r, jobs[parent].source_path.name)
         created == create_job(jobs, r, rerun_source_path,
                               jobs[parent].asr_clip_seconds,
                               jobs[parent].hook_clip_seconds)
     IN /\ fs' = WriteFile(fs, rerun_source_path, ReadFile(fs, jobs[parent].source_path))
        /\ jobs' = patch_meta(created, r,
                     [k \in {"rerun_of_job_id", "rerun_start_stage"} |->
                        IF k = "rerun_of_job_id" THEN parent ELSE StripLower(raw)])
        /\ events' = append_event(events, r, "queued", Msg("queued", "", r))
        /\ queue' = Append(queue, r)
        /\ nextId' = r
  /\ UNCHANGED <<worker, app, restarts, crashes, call>>

\* DELETE /api/jobs/{job_id}: delete the record (events cascade), commit,
\* remove the job directory
DeleteJob(j) ==
  /\ app.pc = "ready"
  /\ get_job(jobs, j)
  /\ jobs' = delete_job(jobs, j)
  /\ events' = [events EXCEPT ![j] = NoEvents]
  /\ fs' = [fs EXCEPT ![j] = [n \in FileNames |-> Absent]]
  /\ UNCHANGED <<queue, worker, app, nextId, restarts, crashes, call>>

\* GET /api/jobs/{job_id}/events: the request (404 when the job is not
\* there), then the loop of event_generator, one read of the store per step:
\* list_events(after_id=last_id), then get_job; the events read are yielded
\* (last_id moves to the last of them) and `end` is yielded when the job
\* read is terminal and no event was read, else the loop sleeps and goes
\* round.  The events of a job are numbered 1..count here, in id order.  The
\* two reads are two statements of the session, each sees the store as it is
\* when it runs.
stream_job_events(j) ==
  /\ app.pc = "ready"
  /\ IF call = NoCall
     THEN /\ get_job(jobs, j)
          /\ call' = [fn |-> "stream_job_events", arg |-> j, done |-> FALSE,
                      result |-> "", pc |-> "list_events", last_id |-> 0, events |-> 0]
     ELSE /\ call.fn = "stream_job_events" /\ call.arg = j /\ ~call.done
          /\ call' =
               IF call.pc = "list_events"
               THEN [call EXCEPT !.pc = "get_job", !.events = events[j].count]
               ELSE IF /\ get_job(jobs, j)
                       /\ jobs[j].status \in TERMINAL_STATES
                       /\ call.events = call.last_id
               THEN [call EXCEPT !.done = TRUE, !.result = "end"]
               ELSE [call EXCEPT !.pc = "list_events", !.last_id = call.events]
  /\ UNCHANGED <<jobs, events, fs, queue, worker, app, nextId, restarts, crashes>>

\* ----------------------------------------------------------------- main.py
\* lifespan, first half: the API process restarts and runs one transaction
\* that resets the running jobs and lists the queued ones.  (The first start,
\* on the empty store, changes nothing: Init is the state after it.)  The
\* event streams of the process that stopped are gone.
LifespanReset(max_restarts) ==
  /\ app.pc = "ready"
  /\ restarts < max_restarts
  /\ LET reset_ids == {k \in DOMAIN jobs : jobs[k].status \in RUNNING_STATES}
         js == reset_running_jobs_to_queued(jobs)
         queued_ids == list_queued_jobs(js)
     IN /\ jobs' = js
        /\ events' = [k \in JobIds |->
                        IF k \in reset_ids
                        THEN append_event(events, k, "queued", Msg("restart requeue", "", k))[k]
                        ELSE events[k]]
        /\ app' = [pc |-> IF queued_ids = <<>> THEN "ready" ELSE "enqueue",
                   queued_ids |-> queued_ids]
  /\ restarts' = restarts + 1
  /\ call' = NoCall
  /\ UNCHANGED <<fs, queue, worker, nextId, crashes>>

\* lifespan, second half: one iteration of `for job_id in queued_ids`
LifespanEnqueue ==
  /\ app.pc = "enqueue"
  /\ queue' = Append(queue, Head(app.queued_ids))
  /\ app' = [pc |-> IF Tail(app.queued_ids) = <<>> THEN "ready" ELSE "enqueue",
             queued_ids |-> Tail(app.queued_ids)]
  /\ UNCHANGED <<jobs, events, fs, worker, nextId, restarts, crashes, call>>

\* -------------------------------------------------- pipeline.py: execute_job
\* what is kept of a run after it ended
Ended(w, exit, trace, worked, raised) ==
  [IdleWorker EXCEPT !.job = worker[w].job, !.stage = worker[w].stage,
                     !.start_stage = worker[w].start_stage, !.exit = exit,
                     !.trace = trace, !.worked = worked, !.raised = raised]

\* except/finally of execute_job: rollback, set_job_error(str(exc)) + commit
\* (an error of set_job_error itself is swallowed), re-raise.  `did` are the
\* stages whose work was called in the step that raised; `message` is
\* str(exc) and `cause` the message of exc.__cause__ (None when exc was not
\* raised from another exception).
HandleChained(w, did, message, cause, js, ev, files) ==
  LET j == worker[w].job IN
  /\ jobs' = IF get_job(js, j) THEN set_job_error(js, j, message) ELSE js
  /\ events' = IF get_job(js, j) THEN append_event(ev, j, "failed", message) ELSE ev
  /\ fs' = files
  /\ worker' = [worker EXCEPT ![w] =
       [Ended(w, "raise",
              IF get_job(js, j) THEN Append(worker[w].trace, "failed") ELSE worker[w].trace,
              worker[w].worked \cup did, message)
        EXCEPT !.cause = cause]]

HandleError(w, did, message, js, ev, files) ==
  HandleChained(w, did, message, None, js, ev, files)

JobNotFound(j) == Msg("job not found", "", j)

\* the outcomes an external call can have: it may always raise, and it can
\* succeed only if the files it reads exist
Outcomes(inputs_exist) == IF inputs_exist THEN {TRUE, FALSE} ELSE {FALSE}

Frame == UNCHANGED <<queue, app, nextId, restarts, crashes, call>>

\* run_job_task: a worker takes the next task from the queue
StartRun(w) ==
  /\ worker[w].pc = "idle"
  /\ queue # <<>>
  /\ queue' = Tail(queue)
  /\ worker' = [worker EXCEPT ![w] = [IdleWorker EXCEPT !.pc = "start", !.job = Head(queue)]]
  /\ UNCHANGED <<jobs, events, fs, app, nextId, restarts, crashes, call>>

\* execute_job up to the rerun note: load the job, clear error_message,
\* resolve the start stage and load the parent
\* variant: a rerun whose parent is gone runs on, with nothing to reuse
LoadJobParentUnchecked(w) ==
  /\ worker[w].pc = "start"
  /\ Frame
  /\ LET j == worker[w].job IN
     IF ~get_job(jobs, j)
     THEN /\ worker' = [worker EXCEPT ![w] = Ended(w, "return", <<>>, {}, None)]
          /\ UNCHANGED <<jobs, events, fs>>
     ELSE
       LET js1 == [jobs EXCEPT ![j].error_message = None]
           job_meta == jobs[j].meta
           start_stage == normalize_start_stage(job_meta)
           parent_job_id == IF "rerun_of_job_id" \in DOMAIN job_meta
                            THEN job_meta["rerun_of_job_id"] ELSE 0
           found == parent_job_id # 0 /\ get_job(js1, parent_job_id)
       IN /\ jobs' = js1
          /\ events' = IF parent_job_id # 0
                       THEN append_event(events, j, "queued",
                                         Msg("rerun", start_stage, parent_job_id))
                       ELSE events
          /\ fs' = fs
          /\ worker' = [worker EXCEPT ![w] =
               [@ EXCEPT !.pc = "check", !.start_stage = start_stage,
                  !.parent_job_id = parent_job_id,
                  !.parent_meta = IF found THEN jobs[parent_job_id].meta ELSE EmptyMap,
                  !.parent_artifacts = IF found THEN jobs[parent_job_id].artifacts
                                       ELSE EmptyMap]]

LoadJob(w) ==
  /\ worker[w].pc = "start"
  /\ Frame
  /\ LET j == worker[w].job IN
     IF ~get_job(jobs, j)
     THEN /\ worker' = [worker EXCEPT ![w] = Ended(w, "return", <<>>, {}, None)]
          /\ UNCHANGED <<jobs, events, fs>>
     ELSE
       LET js1 == [jobs EXCEPT ![j].error_message = None]
           job_meta == jobs[j].meta
           start_stage == normalize_start_stage(job_meta)
           parent_job_id == IF "rerun_of_job_id" \in DOMAIN job_meta
                            THEN job_meta["rerun_of_job_id"] ELSE 0
       IN IF parent_job_id # 0 /\ ~get_job(js1, parent_job_id)
          THEN HandleError(w, {}, Msg("parent job missing", "", parent_job_id), js1, events, fs)
          ELSE /\ jobs' = js1
               /\ events' = IF parent_job_id # 0
                            THEN append_event(events, j, "queued",
                                              Msg("rerun", start_stage, parent_job_id))
                            ELSE events
               /\ fs' = fs
               /\ worker' = [worker EXCEPT ![w] =
                    [@ EXCEPT !.pc = "check", !.start_stage = start_stage,
                       !.parent_job_id = parent_job_id,
                       !.parent_meta = IF parent_job_id # 0
                                       THEN jobs[parent_job_id].meta ELSE EmptyMap,
                       !.parent_artifacts = IF parent_job_id # 0
                                            THEN jobs[parent_job_id].artifacts ELSE EmptyMap]]

\* Path(job.source_path).exists(): the directory of a deleted job is gone
SourceExists(w) ==
  /\ get_job(jobs, worker[w].job)
  /\ ReadFile(fs, jobs[worker[w].job].source_path) # Absent

\* execute_job preconditions: the source file and the toolchain; then
\* _save_artifact(source_video)
\* variant: source_video is recorded before the source and the tools are
\* looked at
CheckSourceRecordedFirst(w) ==
  /\ worker[w].pc = "check"
  /\ Frame
  /\ LET j == worker[w].job
         js == IF get_job(jobs, j)
               THEN put_artifact(jobs, j, "source_video", jobs[j].source_path)
               ELSE jobs
     IN
     IF ~SourceExists(w)
     THEN HandleError(w, {}, Msg("source video missing", "", j), js, events, fs)
     ELSE \E tools_available \in BOOLEAN :
            IF ~tools_available
            THEN HandleError(w, {}, Msg("ffmpeg unavailable", "", j), js, events, fs)
            ELSE /\ jobs' = js
                 /\ UNCHANGED <<events, fs>>
                 /\ worker' = [worker EXCEPT ![w].pc = "enter", ![w].stage = 1]

CheckSource(w) ==
  /\ worker[w].pc = "check"
  /\ Frame
  /\ LET j == worker[w].job IN
     IF ~SourceExists(w)
     THEN HandleError(w, {}, Msg("source video missing", "", j), jobs, events, fs)
     ELSE \E tools_available \in BOOLEAN :
            IF ~tools_available
            THEN HandleError(w, {}, Msg("ffmpeg unavailable", "", j), jobs, events, fs)
            ELSE /\ jobs' = put_artifact(jobs, j, "source_video", jobs[j].source_path)
                 /\ UNCHANGED <<events, fs>>
                 /\ worker' = [worker EXCEPT ![w].pc = "enter", ![w].stage = 1]

\* whether the stage the worker is at does its work (TRUE) or reuses the parent
RunsStage(w) ==
  \/ STAGE_SEQUENCE[worker[w].stage] = "postprocess"
  \/ should_run_stage(worker[w].start_stage, STAGE_SEQUENCE[worker[w].stage])

\* _set_stage(db, job.id, STAGE, message) at the head of every stage
EnterStage(w) ==
  /\ worker[w].pc = "enter"
  /\ Frame
  /\ LET j == worker[w].job
         stage == STAGE_SEQUENCE[worker[w].stage]
         message == Msg(IF RunsStage(w) THEN "run" ELSE "skip", stage, j)
     IN IF ~get_job(jobs, j)
        THEN HandleError(w, {}, JobNotFound(j), jobs, events, fs)
        ELSE /\ jobs' = set_job_status(jobs, j, stage)
             /\ events' = append_event(events, j, stage, message)
             /\ fs' = fs
             /\ worker' = [worker EXCEPT ![w].pc = "body",
                                         ![w].trace = Append(@, stage)]

At(w, pc, stage) == worker[w].pc = pc /\ STAGE_SEQUENCE[worker[w].stage] = stage

\* variant: the stage number does not advance
GotoSameStage(w, pc, stage, did) ==
  [worker[w] EXCEPT !.pc = pc, !.worked = @ \cup did]

\* the worker after a step: at `pc` of stage number `stage`, having called
\* the work of the stages `did`
Goto(w, pc, stage, did) ==
  [worker[w] EXCEPT !.pc = pc, !.stage = stage, !.worked = @ \cup did]

\* variant: the file is written, the artifact is not recorded
SaveProducedUnrecorded(w, did, kind, name, content, next) ==
  /\ fs' = WriteFile(fs, JobFile(worker[w].job, name), content)
  /\ UNCHANGED <<jobs, events>>
  /\ worker' = [worker EXCEPT ![w] = next]

\* write `content` to job_dir / name and _save_artifact it under `kind`; the
\* directory of a deleted job is gone, so nothing can be written there
SaveProduced(w, did, kind, name, content, next) ==
  LET j == worker[w].job
      target == JobFile(j, name)
  IN IF get_job(jobs, j)
     THEN /\ jobs' = put_artifact(jobs, j, kind, target)
          /\ events' = events
          /\ fs' = WriteFile(fs, target, content)
          /\ worker' = [worker EXCEPT ![w] = next]
     ELSE HandleError(w, did, JobNotFound(j), jobs, events, fs)

\* variant: the parent's file is recorded by reference instead of copied
reuse_parent_by_reference(w, kind, name, required, next) ==
  LET parent_artifacts == worker[w].parent_artifacts
      j == worker[w].job
  IN IF kind \notin DOMAIN parent_artifacts \/ ~get_job(jobs, j)
     THEN HandleError(w, {}, Msg("parent lacks artifact", kind, worker[w].parent_job_id),
                      jobs, events, fs)
     ELSE /\ jobs' = put_artifact(jobs, j, kind, parent_artifacts[kind])
          /\ UNCHANGED <<events, fs>>
          /\ worker' = [worker EXCEPT ![w] = next]

\* variant: a missing parent artifact is passed over even when required
reuse_parent_artifact_lenient(w, kind, name, required, next) ==
  LET parent_artifacts == worker[w].parent_artifacts
  IN IF \/ kind \notin DOMAIN parent_artifacts
        \/ ReadFile(fs, parent_artifacts[kind]) = Absent
     THEN /\ worker' = [worker EXCEPT ![w] = next]
          /\ UNCHANGED <<jobs, events, fs>>
     ELSE SaveProduced(w, {}, kind, name, ReadFile(fs, parent_artifacts[kind]), next)

reuse_parent_artifact(w, kind, name, required, next) ==
  LET parent_artifacts == worker[w].parent_artifacts
  IN IF kind \notin DOMAIN parent_artifacts
     THEN IF required
          THEN HandleError(w, {}, Msg("parent lacks artifact", kind, worker[w].parent_job_id),
                           jobs, events, fs)
          ELSE /\ worker' = [worker EXCEPT ![w] = next]
               /\ UNCHANGED <<jobs, events, fs>>
     ELSE IF ReadFile(fs, parent_artifacts[kind]) = Absent
     THEN IF required
          THEN HandleError(w, {}, Msg("parent file missing", kind, parent_artifacts[kind].job),
                           jobs, events, fs)
          ELSE /\ worker' = [worker EXCEPT ![w] = next]
               /\ UNCHANGED <<jobs, events, fs>>
     ELSE SaveProduced(w, {}, kind, name, ReadFile(fs, parent_artifacts[kind]), next)

\* the read of the file a skipped stage reused: _read_text_or_fail (read_text
\* raising -> the PipelineError `message` raised from it; blank text ->
\* `message`), and for the script json.loads (raising -> `message` raised
\* from it) followed by validate_script_payload (raising "invalid script").
\* The bytes of the file are the environment's, so the outcome of the read
\* is a choice; a file that is gone (the job was deleted) cannot be read.
\* The path read is the one the reuse returned and recorded.
read_text_or_fail(w, kind, message, next) ==
  LET j == worker[w].job IN
  \E read \in IF /\ get_job(jobs, j)
                  /\ kind \in DOMAIN jobs[j].artifacts
                  /\ ReadFile(fs, jobs[j].artifacts[kind]) # Absent
               THEN {"text", "unusable", "raises"} ELSE {"raises"} :
    IF read = "text"
    THEN /\ worker' = [worker EXCEPT ![w] = next]
         /\ UNCHANGED <<jobs, events, fs>>
    ELSE HandleChained(w, {},
           Msg(IF read = "unusable" /\ kind = "hook_script_json"
               THEN "invalid script" ELSE message, kind, j),
           IF read = "raises"
           THEN Msg(IF kind = "hook_script_json" THEN "json decode error"
                    ELSE "read error", kind, j)
           ELSE None,
           jobs, events, fs)

\* variant: a skipped preprocessing fails when the parent's source_meta is
\* unusable
PreprocessingParentRequired(w) ==
  /\ At(w, "body", "preprocessing")
  /\ Frame
  /\ LET j == worker[w].job
         reused == IF RunsStage(w) THEN Absent
                   ELSE video_meta_from_dict(worker[w].parent_meta)
         did == IF RunsStage(w) THEN {"preprocessing"} ELSE {}
     IN \E ok \in Outcomes(SourceExists(w)) :
          IF ~RunsStage(w) /\ reused = Absent
          THEN HandleError(w, did, Msg("parent lacks source_meta", "", worker[w].parent_job_id),
                           jobs, events, fs)
          ELSE IF reused = Absent /\ ~ok
          THEN HandleError(w, did, Msg("probe failed", "", j), jobs, events, fs)
          ELSE LET source_meta == IF reused # Absent THEN reused
                                  ELSE probe_video(ReadFile(fs, jobs[j].source_path))
               IN IF ~get_job(jobs, j)
                  THEN HandleError(w, did, JobNotFound(j), jobs, events, fs)
                  ELSE /\ jobs' = patch_meta(jobs, j, [k \in {"source_meta"} |-> source_meta])
                       /\ UNCHANGED <<events, fs>>
                       /\ worker' = [worker EXCEPT ![w] =
                            [Goto(w, "enter", 2, did) EXCEPT !.source_meta = source_meta]]

\* preprocessing: probe the source (or take the parent's source_meta, and
\* probe if that is unusable), then patch_meta(source_meta=...)
Preprocessing(w) ==
  /\ At(w, "body", "preprocessing")
  /\ Frame
  /\ LET j == worker[w].job
         reused == IF RunsStage(w) THEN Absent
                   ELSE video_meta_from_dict(worker[w].parent_meta)
         did == IF reused = Absent THEN {"preprocessing"} ELSE {}
     IN \E ok \in Outcomes(SourceExists(w)) :
          IF reused = Absent /\ ~ok
          THEN HandleError(w, did, Msg("probe failed", "", j), jobs, events, fs)
          ELSE LET source_meta == IF reused # Absent THEN reused
                                  ELSE probe_video(ReadFile(fs, jobs[j].source_path))
               IN IF ~get_job(jobs, j)
                  THEN HandleError(w, did, JobNotFound(j), jobs, events, fs)
                  ELSE /\ jobs' = patch_meta(jobs, j, [k \in {"source_meta"} |-> source_meta])
                       /\ UNCHANGED <<events, fs>>
                       /\ worker' = [worker EXCEPT ![w] =
                            [Goto(w, "enter", 2, did) EXCEPT !.source_meta = source_meta]]

\* asr, first half: extract the audio clip (or reuse the parent's, optional)
AsrClip(w) ==
  /\ At(w, "body", "asr")
  /\ Frame
  /\ LET j == worker[w].job IN
     IF RunsStage(w)
     THEN \E ok \in Outcomes(SourceExists(w)) :
            IF ok
            THEN SaveProduced(w, {"asr"}, "asr_clip_audio", "asr_clip.wav",
                   Content("asr_clip_audio", ReadFile(fs, jobs[j].source_path).by, j),
                   Goto(w, "body2", 2, {"asr"}))
            ELSE HandleError(w, {"asr"}, Msg("extract failed", "", j), jobs, events, fs)
     ELSE reuse_parent_artifact(w, "asr_clip_audio", "asr_clip.wav", FALSE,
                                Goto(w, "body2", 2, {}))

\* asr, second half: recognize and store the transcript (or reuse the parent's)
AsrTranscript(w) ==
  /\ At(w, "body2", "asr") \/ At(w, "read", "asr")
  /\ Frame
  /\ LET j == worker[w].job IN
     IF worker[w].pc = "read"
     THEN read_text_or_fail(w, "transcript_raw", "reused transcript empty",
                            Goto(w, "enter", 3, {}))
     ELSE IF RunsStage(w)
     THEN \E ok \in Outcomes(ReadFile(fs, JobFile(j, "asr_clip.wav")) # Absent) :
            IF ok
            THEN SaveProduced(w, {"asr"}, "transcript_raw", "transcript_raw.txt",
                   Content("transcript_raw", j, j), Goto(w, "enter", 3, {"asr"}))
            ELSE HandleError(w, {"asr"}, Msg("asr failed", "", j), jobs, events, fs)
     ELSE reuse_parent_artifact(w, "transcript_raw", "transcript_raw.txt", TRUE,
                                Goto(w, "read", 2, {}))

TranscriptPolish(w) ==
  /\ At(w, "body", "transcript_polish") \/ At(w, "read", "transcript_polish")
  /\ Frame
  /\ LET j == worker[w].job
         did == {"transcript_polish"}
     IN IF worker[w].pc = "read"
        THEN read_text_or_fail(w, "transcript_polished", "reused polished text empty",
                               Goto(w, "enter", 4, {}))
        ELSE IF RunsStage(w)
        THEN \E ok \in BOOLEAN :
               IF ok
               THEN SaveProduced(w, did, "transcript_polished", "transcript_polished.txt",
                      Content("transcript_polished", j, j), Goto(w, "enter", 4, did))
               ELSE HandleError(w, did, Msg("polish failed", "", j), jobs, events, fs)
        ELSE reuse_parent_artifact(w, "transcript_polished", "transcript_polished.txt", TRUE,
                                   Goto(w, "read", 3, {}))

ScriptGen(w) ==
  /\ At(w, "body", "script_gen") \/ At(w, "read", "script_gen")
  /\ Frame
  /\ LET j == worker[w].job
         did == {"script_gen"}
     IN IF worker[w].pc = "read"
        THEN read_text_or_fail(w, "hook_script_json", "reused script unparsable",
                               Goto(w, "enter", 5, {}))
        ELSE IF RunsStage(w)
        THEN \E ok \in BOOLEAN :
               IF ok
               THEN SaveProduced(w, did, "hook_script_json", "hook_script.json",
                      Content("hook_script_json", j, j), Goto(w, "enter", 5, did))
               ELSE HandleError(w, did, Msg("script failed", "", j), jobs, events, fs)
        ELSE reuse_parent_artifact(w, "hook_script_json", "hook_script.json", TRUE,
                                   Goto(w, "read", 4, {}))

\* variant: the video task is submitted anew even when the stage is skipped
VideoSubmitAnew(w) ==
  /\ At(w, "body", "video_submit")
  /\ Frame
  /\ LET j == worker[w].job
         did == {"video_submit"}
     IN \E ok \in BOOLEAN :
          IF ~ok
          THEN HandleError(w, did, Msg("submit failed", "", j), jobs, events, fs)
          ELSE IF ~get_job(jobs, j)
          THEN HandleError(w, did, JobNotFound(j), jobs, events, fs)
          ELSE /\ jobs' = patch_meta(jobs, j, [k \in {"video_task_id"} |-> Content("task", j, j)])
               /\ UNCHANGED <<events, fs>>
               /\ worker' = [worker EXCEPT ![w] =
                    [Goto(w, "enter", 6, did) EXCEPT !.task_id = Content("task", j, j)]]

\* video_submit: submit (or take the parent's video_task_id), then
\* patch_meta(video_task_id=...)
\* variant: a skipped video_submit uses the parent's task id without
\* recording it on the rerun
VideoSubmitUnrecorded(w) ==
  /\ At(w, "body", "video_submit")
  /\ Frame
  /\ LET j == worker[w].job
         parent_meta == worker[w].parent_meta
         did == IF RunsStage(w) THEN {"video_submit"} ELSE {}
     IN \E ok \in BOOLEAN :
          LET task_id == IF RunsStage(w)
                         THEN (IF ok THEN Content("task", j, j) ELSE Absent)
                         ELSE (IF "video_task_id" \in DOMAIN parent_meta
                               THEN parent_meta["video_task_id"] ELSE Absent)
          IN IF task_id = Absent
             THEN HandleError(w, did,
                    IF RunsStage(w) THEN Msg("submit failed", "", j)
                    ELSE Msg("parent lacks video_task_id", worker[w].start_stage,
                             worker[w].parent_job_id),
                    jobs, events, fs)
             ELSE IF ~get_job(jobs, j)
             THEN HandleError(w, did, JobNotFound(j), jobs, events, fs)
             ELSE /\ jobs' = IF RunsStage(w)
                             THEN patch_meta(jobs, j, [k \in {"video_task_id"} |-> task_id])
                             ELSE jobs
                  /\ UNCHANGED <<events, fs>>
                  /\ worker' = [worker EXCEPT ![w] =
                       [Goto(w, "enter", 6, did) EXCEPT !.task_id = task_id]]

VideoSubmit(w) ==
  /\ At(w, "body", "video_submit")
  /\ Frame
  /\ LET j == worker[w].job
         parent_meta == worker[w].parent_meta
         did == IF RunsStage(w) THEN {"video_submit"} ELSE {}
     IN \E ok \in BOOLEAN :
          LET task_id == IF RunsStage(w)
                         THEN (IF ok THEN Content("task", j, j) ELSE Absent)
                         ELSE (IF "video_task_id" \in DOMAIN parent_meta
                               THEN parent_meta["video_task_id"] ELSE Absent)
          IN IF task_id = Absent
             THEN HandleError(w, did,
                    IF RunsStage(w) THEN Msg("submit failed", "", j)
                    ELSE Msg("parent lacks video_task_id", worker[w].start_stage,
                             worker[w].parent_job_id),
                    jobs, events, fs)
             ELSE IF ~get_job(jobs, j)
             THEN HandleError(w, did, JobNotFound(j), jobs, events, fs)
             ELSE /\ jobs' = patch_meta(jobs, j, [k \in {"video_task_id"} |-> task_id])
                  /\ UNCHANGED <<events, fs>>
                  /\ worker' = [worker EXCEPT ![w] =
                       [Goto(w, "enter", 6, did) EXCEPT !.task_id = task_id]]

\* video_polling: poll worker.task_id, download the clip (or reuse the parent's)
VideoPolling(w) ==
  /\ At(w, "body", "video_polling")
  /\ Frame
  /\ LET j == worker[w].job
         did == {"video_polling"}
     IN IF RunsStage(w)
        THEN \E ok \in BOOLEAN :
               IF ok
               THEN SaveProduced(w, did, "hook_video_raw", "hook_video_raw.mp4",
                      Content("hook_video_raw", worker[w].task_id.by, j),
                      Goto(w, "enter", 7, did))
               ELSE HandleError(w, did, Msg("poll failed", "", j), jobs, events, fs)
        ELSE reuse_parent_artifact(w, "hook_video_raw", "hook_video_raw.mp4", TRUE,
                                   Goto(w, "enter", 7, {}))

\* variant: a rerun from postprocess takes the parent's normalized hook clip
PostNormalizeReused(w) ==
  /\ At(w, "body", "postprocess")
  /\ Frame
  /\ LET j == worker[w].job
         did == {"postprocess"}
         hook_video_raw_path == JobFile(j, "hook_video_raw.mp4")
     IN IF /\ worker[w].start_stage = "postprocess"
           /\ "hook_video_norm" \in DOMAIN worker[w].parent_artifacts
        THEN reuse_parent_artifact(w, "hook_video_norm", "hook_video_norm.mp4", FALSE,
                                   Goto(w, "body2", 7, did))
        ELSE \E ok \in Outcomes(SourceExists(w) /\ ReadFile(fs, hook_video_raw_path) # Absent) :
               IF ok
               THEN SaveProduced(w, did, "hook_video_norm", "hook_video_norm.mp4",
                      Content("hook_video_norm", ReadFile(fs, hook_video_raw_path).by, j),
                      Goto(w, "body2", 7, did))
               ELSE HandleError(w, did, Msg("normalize failed", "", j), jobs, events, fs)

\* postprocess, first half: normalize the source and the hook clip
PostNormalize(w) ==
  /\ At(w, "body", "postprocess")
  /\ Frame
  /\ LET j == worker[w].job
         did == {"postprocess"}
         hook_video_raw_path == JobFile(j, "hook_video_raw.mp4")
     IN \E ok \in Outcomes(SourceExists(w) /\ ReadFile(fs, hook_video_raw_path) # Absent) :
          IF ok
          THEN SaveProduced(w, did, "hook_video_norm", "hook_video_norm.mp4",
                 Content("hook_video_norm", ReadFile(fs, hook_video_raw_path).by, j),
                 Goto(w, "body2", 7, did))
          ELSE HandleError(w, did, Msg("normalize failed", "", j), jobs, events, fs)

\* postprocess, second half: concatenate hook and source
PostConcat(w) ==
  /\ At(w, "body2", "postprocess")
  /\ Frame
  /\ LET j == worker[w].job
         did == {"postprocess"}
         hook_video_norm_path == JobFile(j, "hook_video_norm.mp4")
     IN \E ok \in Outcomes(ReadFile(fs, hook_video_norm_path) # Absent) :
          IF ok
          THEN SaveProduced(w, did, "final_video", "final_video.mp4",
                 Content("final_video", ReadFile(fs, hook_video_norm_path).by, j),
                 Goto(w, "finish", 7, did))
          ELSE HandleError(w, did, Msg("concat failed", "", j), jobs, events, fs)

\* set_job_status(COMPLETED) + commit, then return
Complete(w) ==
  /\ At(w, "finish", "postprocess")
  /\ Frame
  /\ LET j == worker[w].job IN
     IF ~get_job(jobs, j)
     THEN HandleError(w, {}, JobNotFound(j), jobs, events, fs)
     ELSE /\ jobs' = set_job_status(jobs, j, "completed")
          /\ events' = append_event(events, j, "completed", Msg("done", "", j))
          /\ fs' = fs
          /\ worker' = [worker EXCEPT ![w] =
               Ended(w, "return", Append(worker[w].trace, "completed"),
                     worker[w].worked, None)]

\* the worker process dies in the middle of execute_job: no handler runs and
\* the task, already taken from the queue, is gone
WorkerCrash(max_crashes, w) ==
  /\ worker[w].pc # "idle"
  /\ crashes < max_crashes
  /\ crashes' = crashes + 1
  /\ worker' = [worker EXCEPT ![w] = Ended(w, "crash", worker[w].trace, worker[w].worked, None)]
  /\ UNCHANGED <<jobs, events, fs, queue, app, nextId, restarts, call>>

\* one step of execute_job in worker w
RunStep(w) ==
  \/ StartRun(w)
  \/ LoadJob(w)
  \/ CheckSource(w)
  \/ EnterStage(w)
  \/ Preprocessing(w)
  \/ AsrClip(w)
  \/ AsrTranscript(w)
  \/ TranscriptPolish(w)
  \/ ScriptGen(w)
  \/ VideoSubmit(w)
  \/ VideoPolling(w)
  \/ PostNormalize(w)
  \/ PostConcat(w)
  \/ Complete(w)

Next ==
  \/ CreateJob(MaxJobs, FormDefaults)
  \/ \E p \in JobIds, raw \in RequestStages : RerunJob(MaxJobs, p, raw)
  \/ \E j \in JobIds : DeleteJob(j)
  \/ \E w \in 1..NumWorkers : RunStep(w)

Spec == Init /\ [][Next]_vars

NextSys ==
  \/ CreateJob(SysJobs, FormDefaults)
  \/ \E p \in JobIds, raw \in SysRerunStages : RerunJob(SysJobs, p, raw)
  \/ LifespanReset(SysRestarts)
  \/ LifespanEnqueue
  \/ RunStep(1)
  \/ WorkerCrash(SysCrashes, 1)

SpecSys == Init /\ [][NextSys]_vars

NextPool ==
  \/ CreateJob(PoolJobs, FormDefaults)
  \/ LifespanReset(PoolRestarts)
  \/ LifespanEnqueue
  \/ \E w \in 1..PoolWorkers : RunStep(w)
  \/ \E j \in JobIds : stream_job_events(j)

SpecPool == Init /\ [][NextPool]_vars

\* the source file of a job is removed from the disk by something other than
\* the program (the case Path(source_path).exists() guards against)
SourceLost(j) ==
  /\ get_job(jobs, j)
  /\ ReadFile(fs, jobs[j].source_path) # Absent
  /\ fs' = WriteFile(fs, jobs[j].source_path, Absent)
  /\ UNCHANGED <<jobs, events, queue, worker, app, nextId, restarts, crashes, call>>

NextApi ==
  \/ CreateJob(ApiJobs, ApiForms)
  \/ \E p \in JobIds, raw \in RequestStages : RerunJob(ApiJobs, p, raw)
  \/ \E j \in JobIds : DeleteJob(j)
  \/ \E j \in JobIds : SourceLost(j)
  \/ RunStep(1)

SpecApi == Init /\ [][NextApi]_vars

\* ------------------------------------------------- calls of helper functions
\* a call changes nothing but the record of the call
CallFrame ==
  UNCHANGED <<jobs, events, fs, queue, worker, app, nextId, restarts, crashes>>

\* The values of meta.rerun_start_stage tried: every status name and an
\* unknown word, in lower case, upper case and capitalised, with and without
\* whitespace around it (exact: TRUE) and with a blank inside it (exact:
\* FALSE); strings of whitespace only; None; and ints.
StatusWords ==
  {"preprocessing", "asr", "transcript_polish", "script_gen", "video_submit",
   "video_polling", "postprocess", "queued", "completed", "failed", "canceled",
   "unknown"}
Pads == {<<>>, <<" ">>, <<"\t", "\n">>}
Spellings(text) == {text, upper(text), upper(<<Head(text)>>) \o Tail(text)}
StartStageInputs ==
  UNION {{[value |-> StrValue(l \o t \o r), base |-> b, exact |-> TRUE] :
                 t \in Spellings(Chars(b)), l \in Pads, r \in Pads} : b \in StatusWords}
  \cup UNION {{[value |-> StrValue(l \o <<Head(t), " ">> \o Tail(t) \o r),
                base |-> b, exact |-> FALSE] :
                 t \in Spellings(Chars(b)), l \in Pads, r \in Pads} : b \in StatusWords}
  \cup {[value |-> StrValue(l \o r), base |-> "", exact |-> FALSE] : l \in Pads, r \in Pads}
  \cup {[value |-> v, base |-> "", exact |-> FALSE] :
          v \in {NoneValue, IntValue(<<"0">>), IntValue(<<"7">>)}}

\* a call that has its argument and has not run yet
Pending(fn, arg) == [fn |-> fn, arg |-> arg, done |-> FALSE, result |-> ""]

\* _normalize_start_stage(value) runs
NormalizeStartStage ==
  /\ call.fn = "normalize_start_stage" /\ ~call.done
  /\ call' = [call EXCEPT !.done = TRUE,
                          !.result = normalize_start_stage_of(call.arg.value)]
  /\ CallFrame

\* ---------------------------------------------------------- script_schema.py
REQUIRED_FIELDS ==
  {"hook_title", "visual_prompt", "shot_list", "narration", "style_tags",
   "safety_notes"}

\* a list and a dict (keys to values) as Python values
ListValue(items) == [type |-> "list", value |-> items]
DictValue(items) == [type |-> "dict", items |-> items]

\* the names of REQUIRED_FIELDS in the order sorted() gives them
SortedFields ==
  <<"hook_title", "narration", "safety_notes", "shot_list", "style_tags",
    "visual_prompt">>
sorted(names) == SelectSeq(SortedFields, LAMBDA n : n \in names)

Return(value) == [kind |-> "return", value |-> value]
Raise(error, text, names) ==
  [kind |-> "raise", error |-> error, text |-> text, names |-> names]

\* payload.get(key)
DictGet(payload, key) ==
  IF key \in DOMAIN payload.items THEN payload.items[key] ELSE NoneValue

\* the first of the four text fields, in the order of the loop, that is not a
\* string or is empty after strip(); "" if there is none
FirstBadText(payload) ==
  LET order == <<"hook_title", "visual_prompt", "narration", "safety_notes">>
      bad(key) == \/ DictGet(payload, key).type # "str"
                  \/ strip(DictGet(payload, key).value) = <<>>
  IN IF \E i \in 1..4 : bad(order[i])
     THEN order[CHOOSE i \in 1..4 : bad(order[i]) /\ \A k \in 1..(i-1) : ~bad(order[k])]
     ELSE ""

\* variant: only the first missing field is named
validate_script_payload_first_missing(payload) ==
  IF payload.type # "dict"
  THEN Raise("AttributeError", "has no attribute 'keys'", <<>>)
  ELSE LET missing == sorted(REQUIRED_FIELDS \ DOMAIN payload.items)
       IN IF missing # <<>>
          THEN Raise("ScriptSchemaError", "missing fields", <<Head(missing)>>)
          ELSE IF DictGet(payload, "shot_list").type # "list"
          THEN Raise("ScriptSchemaError", "must be an array", <<"shot_list">>)
          ELSE IF DictGet(payload, "style_tags").type # "list"
          THEN Raise("ScriptSchemaError", "must be an array", <<"style_tags">>)
          ELSE IF FirstBadText(payload) # ""
          THEN Raise("ScriptSchemaError", "must be non-empty string",
                     <<FirstBadText(payload)>>)
          ELSE Return(payload)

\* validate_script_payload(payload)
validate_script_payload(payload) ==
  IF payload.type # "dict"
  THEN Raise("AttributeError", "has no attribute 'keys'", <<>>)
  ELSE LET missing == sorted(REQUIRED_FIELDS \ DOMAIN payload.items)
       IN IF missing # <<>>
          THEN Raise("ScriptSchemaError", "missing fields", missing)
          ELSE IF DictGet(payload, "shot_list").type # "list"
          THEN Raise("ScriptSchemaError", "must be an array", <<"shot_list">>)
          ELSE IF DictGet(payload, "style_tags").type # "list"
          THEN Raise("ScriptSchemaError", "must be an array", <<"style_tags">>)
          ELSE IF FirstBadText(payload) # ""
          THEN Raise("ScriptSchemaError", "must be non-empty string",
                     <<FirstBadText(payload)>>)
          ELSE Return(payload)

\* The payloads tried: a well-formed script, with any subset of its six keys
\* and of one more key, and with at most one field given another value; and
\* payloads that are no dict.
FieldValues ==
  {StrValue(<<"a">>), StrValue(<<" ", "a", "\n">>), StrValue(<<>>),
   StrValue(<<" ", "\t">>), ListValue(<<>>), ListValue(<<"s">>),
   IntValue(<<"7">>), NoneValue}
GoodScript ==
  [key \in REQUIRED_FIELDS \cup {"extra"} |->
     IF key \in {"shot_list", "style_tags"} THEN ListValue(<<"s">>)
     ELSE StrValue(<<"a">>)]
PayloadInputs ==
  UNION {{DictValue([key \in keys |-> GoodScript[key]])} \cup
         {DictValue([key \in keys |-> IF key = k THEN v ELSE GoodScript[key]]) :
            <<k, v>> \in (keys \cap REQUIRED_FIELDS) \X FieldValues} :
         keys \in SUBSET (REQUIRED_FIELDS \cup {"extra"})}
  \cup {ListValue(<<>>), NoneValue}

\* validate_script_payload(payload) runs
ValidateScriptPayload ==
  /\ call.fn = "validate_script_payload" /\ ~call.done
  /\ call' = [call EXCEPT !.done = TRUE,
                          !.result = validate_script_payload(call.arg)]
  /\ CallFrame

\* ----------------------------------------------------------- volc_clients.py
\* A text of LLM output is a sequence of lexemes: the JSON punctuation, string
\* and number literals, whitespace, words of prose, and the code fence.
\* the code fence, three backticks
Fence == "FENCE"
JsonStrings == {"\"a\"", "\"b\"", "\"s\""}
JsonNumbers == {"1", "2"}

ParseFail == [ok |-> FALSE, value |-> NoneValue, rest |-> <<>>]
Parsed(value, rest) == [ok |-> TRUE, value |-> value, rest |-> rest]

\* the JSON decoder: one value at the front of the lexemes, and the rest
RECURSIVE ParseValue(_), ParseMembers(_, _), ParseElements(_, _)
ParseValue(toks) ==
  LET t == lstrip(toks)
  IN IF t = <<>> THEN ParseFail
     ELSE IF Head(t) \in JsonNumbers THEN Parsed(IntValue(<<Head(t)>>), Tail(t))
     ELSE IF Head(t) \in JsonStrings THEN Parsed(StrValue(<<Head(t)>>), Tail(t))
     ELSE IF Head(t) = "{"
     THEN LET u == lstrip(Tail(t))
          IN IF u # <<>> /\ Head(u) = "}"
             THEN Parsed(DictValue(EmptyMap), Tail(u))
             ELSE ParseMembers(u, EmptyMap)
     ELSE IF Head(t) = "["
     THEN LET u == lstrip(Tail(t))
          IN IF u # <<>> /\ Head(u) = "]"
             THEN Parsed(ListValue(<<>>), Tail(u))
             ELSE ParseElements(u, <<>>)
     ELSE ParseFail
ParseMembers(toks, items) ==
  IF toks = <<>> \/ Head(toks) \notin JsonStrings THEN ParseFail
  ELSE LET key == Head(toks)
           u == lstrip(Tail(toks))
       IN IF u = <<>> \/ Head(u) # ":" THEN ParseFail
          ELSE LET r == ParseValue(Tail(u))
                   more == [k \in DOMAIN items \cup {key} |->
                              IF k = key THEN r.value ELSE items[k]]
                   v == lstrip(r.rest)
               IN IF ~r.ok \/ v = <<>> THEN ParseFail
                  ELSE IF Head(v) = "}" THEN Parsed(DictValue(more), Tail(v))
                  ELSE IF Head(v) = "," THEN ParseMembers(lstrip(Tail(v)), more)
                  ELSE ParseFail
ParseElements(toks, items) ==
  LET r == ParseValue(toks)
      v == lstrip(r.rest)
  IN IF ~r.ok \/ v = <<>> THEN ParseFail
     ELSE IF Head(v) = "]" THEN Parsed(ListValue(Append(items, r.value)), Tail(v))
     ELSE IF Head(v) = "," THEN ParseElements(Tail(v), Append(items, r.value))
     ELSE ParseFail

\* json.loads(text): the whole text is one value
json_loads(text) ==
  LET r == ParseValue(text)
  IN IF r.ok /\ lstrip(r.rest) = <<>> THEN r ELSE ParseFail

\* json.dumps(value), keys in the order "a", "b", "s"
KeyOrder == <<"\"a\"", "\"b\"", "\"s\"">>
RECURSIVE json_dumps(_), DumpMembers(_, _), DumpElements(_)
json_dumps(value) ==
  CASE value.type = "dict" ->
         <<"{">> \o DumpMembers(value.items,
                                SelectSeq(KeyOrder, LAMBDA k : k \in DOMAIN value.items))
         \o <<"}">>
    [] value.type = "list" -> <<"[">> \o DumpElements(value.value) \o <<"]">>
    [] OTHER -> value.value
DumpMembers(items, keys) ==
  IF keys = <<>> THEN <<>>
  ELSE <<Head(keys), ":", " ">> \o json_dumps(items[Head(keys)])
       \o (IF Tail(keys) = <<>> THEN <<>> ELSE <<",", " ">>)
       \o DumpMembers(items, Tail(keys))
DumpElements(elems) ==
  IF elems = <<>> THEN <<>>
  ELSE json_dumps(Head(elems))
       \o (IF Tail(elems) = <<>> THEN <<>> ELSE <<",", " ">>)
       \o DumpElements(Tail(elems))

\* re.sub(r"^```(?:json)?", "", text) and re.sub(r"```$", "", text)
RemoveLeadingFence(text) ==
  IF text # <<>> /\ Head(text) = Fence
  THEN IF Len(text) >= 2 /\ text[2] = "json" THEN Tail(Tail(text)) ELSE Tail(text)
  ELSE text
RemoveTrailingFence(text) ==
  IF text # <<>> /\ text[Len(text)] = Fence THEN SubSeq(text, 1, Len(text) - 1)
  ELSE text

\* re.search(r"\{.*\}", text, flags=re.DOTALL): from the first "{" to the last
\* "}" behind it; <<>> if there is no match
BraceSpan(text) ==
  LET opens == {i \in 1..Len(text) : text[i] = "{"}
      first == CHOOSE i \in opens : \A k \in opens : i <= k
      closes == {i \in 1..Len(text) : text[i] = "}" /\ i > first}
  IN IF opens = {} \/ closes = {} THEN <<>>
     ELSE SubSeq(text, first, CHOOSE i \in closes : \A k \in closes : i >= k)

\* extract_first_json_object(text)
extract_first_json_object(raw) ==
  LET stripped == strip(raw)
      text == IF stripped # <<>> /\ Head(stripped) = Fence
              THEN strip(RemoveTrailingFence(strip(RemoveLeadingFence(stripped))))
              ELSE stripped
      whole == json_loads(text)
      span == BraceSpan(text)
      parsed == json_loads(span)
  IN IF stripped = <<>> THEN Raise("ValueError", "empty llm output", <<>>)
     ELSE IF whole.ok /\ whole.value.type = "dict" THEN Return(whole.value)
     ELSE IF span = <<>>
     THEN Raise("ValueError", "no json object found in llm output", <<>>)
     ELSE IF ~parsed.ok THEN Raise("JSONDecodeError", "", <<>>)
     ELSE IF parsed.value.type # "dict"
     THEN Raise("ValueError", "llm output json must be object", <<>>)
     ELSE Return(parsed.value)

\* The texts tried. Each is built from a JSON object and says how (form):
\* the serialised object, alone, with whitespace around it, in a code fence,
\* between words of prose, behind prose that has braces of its own, followed
\* by a second object, inside an array, cut at either end; and texts without
\* any object.
Dict1(k, v) == DictValue([x \in {k} |-> v])
JsonObjects ==
  {DictValue(EmptyMap),
   Dict1("\"a\"", IntValue(<<"1">>)),
   Dict1("\"a\"", Dict1("\"b\"", IntValue(<<"2">>))),
   DictValue([x \in {"\"a\"", "\"s\""} |->
                IF x = "\"a\"" THEN ListValue(<<IntValue(<<"1">>), IntValue(<<"2">>)>>)
                ELSE StrValue(<<"\"s\"">>)])}
TextOf(form, object, text) == [form |-> form, object |-> object, text |-> text]
LlmTexts ==
  UNION {
    {TextOf("plain", o, json_dumps(o)),
     TextOf("plain", o, <<" ", "\n">> \o json_dumps(o) \o <<"\n">>),
     TextOf("fenced", o, <<Fence, "json", "\n">> \o json_dumps(o) \o <<"\n", Fence>>),
     TextOf("fenced", o, <<Fence, "\n">> \o json_dumps(o) \o <<"\n", Fence, "\n">>),
     TextOf("fenced", o, <<Fence, "json">> \o json_dumps(o)),
     TextOf("prose", o, <<"Here", " ">> \o json_dumps(o) \o <<"\n", "ok">>),
     TextOf("prose", o, <<"Here", " ">> \o json_dumps(o)),
     TextOf("prose", o, json_dumps(o) \o <<" ", "ok">>),
     TextOf("prose", o, <<"see", " ", "{", "x", "}", " ">> \o json_dumps(o)),
     TextOf("prose", o, json_dumps(o) \o <<" ", "or", " ", "{", "}">>),
     TextOf("array", o, <<"[">> \o json_dumps(o) \o <<"]">>),
     TextOf("cut", o, SubSeq(json_dumps(o), 1, Len(json_dumps(o)) - 1)),
     TextOf("cut", o, Tail(json_dumps(o)))} : o \in JsonObjects}
  \cup {TextOf("none", NoneValue, t) :
          t \in {<<>>, <<" ", "\n">>, <<"1">>, <<"[", "1", "]">>, <<"\"a\"">>,
                 <<"ok">>, <<Fence, "json", "\n", Fence>>, <<"}", " ", "{">>}}

\* extract_first_json_object(text) runs
ExtractFirstJsonObject ==
  /\ call.fn = "extract_first_json_object" /\ ~call.done
  /\ call' = [call EXCEPT !.done = TRUE,
                          !.result = extract_first_json_object(call.arg.text)]
  /\ CallFrame

\* parse_llm_text(payload).  The payload is given by what the function looks
\* at: choices ("absent": no list or an empty one; "other": the first choice
\* is no dict; "dict"), the values of choices[0].message.content,
\* choices[0].content, output_text and of a top-level key text (NoneValue: no
\* such key, or no dict to hold it).  The keys of the payload are in the order
\* choices, output_text, text.
parse_llm_text(payload) ==
  LET Stripped(value) == Return(StrValue(strip(value.value)))
      found == (IF payload.choices = "dict" THEN <<payload.message, payload.content>>
                ELSE <<>>) \o <<payload.text>>
      content == LET strings == SelectSeq(found, LAMBDA v : v.type = "str"
                                                            /\ strip(v.value) # <<>>)
                 IN IF strings = <<>> THEN NoneValue ELSE StrValue(strip(strings[1].value))
  IN IF payload.choices = "dict" /\ payload.message.type = "str"
     THEN Stripped(payload.message)
     ELSE IF payload.choices = "dict" /\ payload.content.type = "str"
     THEN Stripped(payload.content)
     ELSE IF payload.output_text.type = "str"
     THEN Stripped(payload.output_text)
     ELSE IF Truthy(content) THEN Return(content) ELSE Return(StrValue(<<>>))

\* parse_llm_text(payload) runs
ParseLlmText ==
  /\ call.fn = "parse_llm_text" /\ ~call.done
  /\ call' = [call EXCEPT !.done = TRUE, !.result = parse_llm_text(call.arg)]
  /\ CallFrame

\* ------------------------------------------------- volc_clients.py: ASRClient
RESOURCE_FALLBACKS == <<"volc.bigasr.auc_turbo", "volc.seedasr.auc", "volc.bigasr.auc">>
STANDARD_PROCESSING_STATUS == {"20000001"}
STANDARD_TERMINAL_STATUS == {"20000000", "20000003"}

\* A message or response body is the sequence of its words; BODY stands for
\* a long stretch of text without any of the words looked for.
LowerWords(text) ==
  LET LowerWord(word) ==
        CASE word = "ResourceId" -> "resourceid"
          [] word = "Not" -> "not"
          [] word = "Allowed" -> "allowed"
          [] word = "BODY" -> "body"
          [] OTHER -> word
  IN [i \in DOMAIN text |-> LowerWord(text[i])]

\* the number of characters of a word, and of a text with one blank between
\* its words
RECURSIVE CharLen(_)
CharLen(text) ==
  LET WordLen(word) ==
        CASE word \in {"BODY", "body"} -> 200
          [] word \in {"requested", "resourceid", "ResourceId"} -> 10
          [] word = "resource" -> 8
          [] word \in {"granted", "allowed", "Allowed", "invalid"} -> 7
          [] word \in {"grant", "found", "audio", "error"} -> 5
          [] word \in {"not", "Not"} -> 3
          [] OTHER -> 6
  IN IF text = <<>> THEN 0
     ELSE WordLen(Head(text)) + (IF Tail(text) = <<>> THEN 0 ELSE 1 + CharLen(Tail(text)))

\* `part in text`, for a single word (which may be part of a longer word)
\* and for a phrase of several words
HasWord(text, part) ==
  \E i \in 1..Len(text) :
    \/ part = text[i]
    \/ <<part, text[i]>> \in {<<"grant", "granted">>, <<"resource", "resourceid">>}
HasPhrase(text, phrase) ==
  \E i \in 1..(Len(text) - Len(phrase) + 1) :
    \A k \in 1..Len(phrase) : text[i + k - 1] = phrase[k]

\* ASRClient._is_permission_message
is_permission_message(message) ==
  LET text == LowerWords(message)
  IN \/ HasWord(text, "resourceid") /\ HasPhrase(text, <<"not", "allowed">>)
     \/ HasPhrase(text, <<"requested", "grant", "not", "found">>)
     \/ HasWord(text, "resourceid")
     \/ HasPhrase(text, <<"not", "allowed">>)
     \/ HasPhrase(text, <<"requested", "resource", "not", "granted">>)
     \/ HasPhrase(text, <<"not", "granted">>)

\* ASRClient._is_grant_not_found_error
is_grant_not_found_error(response) ==
  \/ HasPhrase(LowerWords(response.text), <<"requested", "grant", "not", "found">>)
  \/ /\ response.header.ok
     /\ HasWord(LowerWords(response.header.message), "grant")
     /\ HasPhrase(LowerWords(response.header.message), <<"not", "found">>)

\* ASRClient._is_resource_not_allowed_error
is_resource_not_allowed_error(response) ==
  \/ /\ HasWord(LowerWords(response.text), "resourceid")
     /\ HasPhrase(LowerWords(response.text), <<"not", "allowed">>)
  \/ /\ response.header.ok
     /\ HasWord(LowerWords(response.header.message), "resourceid")
     /\ HasPhrase(LowerWords(response.header.message), <<"not", "allowed">>)

\* ASRClient._is_resource_not_granted_error
is_resource_not_granted_error(response) ==
  \/ HasPhrase(LowerWords(response.text), <<"requested", "resource", "not", "granted">>)
  \/ /\ HasWord(LowerWords(response.text), "resource_id=")
     /\ HasPhrase(LowerWords(response.text), <<"not", "granted">>)
  \/ /\ response.header.ok
     /\ HasWord(LowerWords(response.header.message), "resource")
     /\ HasPhrase(LowerWords(response.header.message), <<"not", "granted">>)

\* ASRClient._extract_status_code
extract_status_code(response) ==
  IF response.x_status # "" THEN response.x_status
  ELSE IF response.header.ok THEN response.header.code ELSE ""

\* ASRClient._extract_status_message
extract_status_message(response) ==
  IF response.x_message # <<>> THEN response.x_message
  ELSE IF response.header.ok THEN response.header.message ELSE <<>>

\* ASRClient._is_permission_response
is_permission_response(response) ==
  \/ is_grant_not_found_error(response)
  \/ is_resource_not_allowed_error(response)
  \/ is_resource_not_granted_error(response)
  \/ is_permission_message(response.text)
  \/ is_permission_message(extract_status_message(response))

\* the characters of one entry of tried_errors:
\* "{stage}:{resource_id}:http={status}:status={code}:reqid={reqid}:msg={msg}"
\* ASRClient._append_try_error
append_try_error(errors, stage, resource_id, response) ==
  LET Digits(code) == IF code = "" THEN 0 ELSE 8
      IdLen(id) ==
        CASE id = "volc.bigasr.auc_turbo" -> 21
          [] id = "volc.seedasr.auc" -> 16
          [] id = "volc.bigasr.auc" -> 15
          [] OTHER -> 6
      StageLen(name) == IF name = "submit" THEN 6 ELSE 5
      Min(a, b) == IF a < b THEN a ELSE b
      reqid == IF response.header.ok THEN response.header.reqid ELSE ""
      msg == IF response.x_message # <<>> THEN response.x_message ELSE response.text
      msg_len == IF response.x_message # <<>> THEN CharLen(response.x_message)
                 ELSE Min(CharLen(response.text), 180)
  IN Append(errors,
       [stage |-> stage, resource_id |-> resource_id, http |-> response.status_code,
        status |-> response.x_status, reqid |-> reqid, msg |-> msg,
        size |-> StageLen(stage) + 1 + IdLen(resource_id) + 6 + 3 + 8
                 + Digits(response.x_status) + 7 + (IF reqid = "" THEN 0 ELSE 36)
                 + 5 + msg_len])

\* variant: the fallbacks are appended without looking at the list
candidate_resource_ids_all(cfg) == strip(cfg.resource_id) \o RESOURCE_FALLBACKS

\* ASRClient._candidate_resource_ids; the configured id is a text with its
\* surrounding blanks, "" not configured
candidate_resource_ids(cfg) ==
  LET configured == strip(cfg.resource_id)
  IN configured \o SelectSeq(RESOURCE_FALLBACKS,
                             LAMBDA id : configured = <<>> \/ id # configured[1])

\* The responses the ASR service gives in the model to the request of a
\* stage.  A response is its HTTP status, the headers X-Api-Status-Code and
\* X-Api-Message ("" and <<>>: not sent), the body as text, and the header
\* object of the body read as JSON (ok FALSE: no header object; code "": no
\* code).  A response without an error status has a JSON body.
AsrResponses(stage) ==
  LET Response(http, x_status, x_message, text, header) ==
        [status_code |-> http, x_status |-> x_status, x_message |-> x_message,
         text |-> text, header |-> header]
      NoHeader == [ok |-> FALSE, code |-> "", message |-> <<>>, reqid |-> ""]
      Header(code, message, reqid) ==
        [ok |-> TRUE, code |-> code, message |-> message, reqid |-> reqid]
      PermissionBody == <<"requested", "resource", "not", "granted", "BODY">>
  IN CASE stage = "flash" ->
            {Response(200, "20000000", <<"ok">>, <<"BODY">>, Header("", <<>>, "r1")),
             Response(200, "", <<>>, <<"BODY">>, NoHeader),
             Response(403, "", <<>>, PermissionBody, NoHeader),
             Response(405, "", <<>>, <<"method", "Not", "Allowed">>, NoHeader),
             Response(500, "", <<>>, <<"internal", "error">>, NoHeader),
             Response(200, "45000030", <<"requested", "grant", "not", "found">>, <<"BODY">>,
                      Header("45000030", <<"requested", "grant", "not", "found">>, "r1")),
             Response(200, "45000001", <<"invalid", "audio">>, <<"BODY">>,
                      Header("45000001", <<"invalid", "audio">>, "r1")),
             Response(200, "45000002", <<"error">>, PermissionBody, NoHeader),
             Response(200, "20000000", <<>>, <<"BODY">>,
                      Header("45000030", <<"ResourceId", "Not", "Allowed">>, "r1")),
             Response(200, "20000000", <<>>, <<"BODY">>,
                      Header("45000001", <<"invalid", "audio">>, "r1"))}
       [] stage = "submit" ->
            {Response(200, "20000000", <<"ok">>, <<>>, NoHeader),
             Response(403, "", <<>>, PermissionBody, NoHeader),
             Response(500, "", <<>>, <<"internal", "error">>, NoHeader),
             Response(200, "45000030", <<"requested", "grant", "not", "found">>, <<>>, NoHeader),
             Response(200, "45000001", <<"invalid", "audio">>, <<>>, NoHeader)}
       [] stage = "query" ->
            {Response(200, "20000001", <<"processing">>, <<>>, NoHeader),
             Response(200, "20000000", <<"ok">>, <<"BODY">>, NoHeader),
             Response(200, "20000003", <<"silent">>, <<"BODY">>, NoHeader),
             Response(200, "", <<>>, <<"BODY">>, NoHeader),
             Response(403, "", <<>>, PermissionBody, NoHeader),
             Response(500, "", <<>>, <<"internal", "error">>, NoHeader),
             Response(200, "45000001", <<"invalid", "audio">>, <<>>, NoHeader)}

\* " | ".join(tried_errors)[:1400]: the entries that are whole in it
DetailsLimit == 1400
RECURSIVE JoinedLen(_)
JoinedLen(errors) ==
  IF errors = <<>> THEN 0
  ELSE errors[Len(errors)].size
       + (IF Len(errors) = 1 THEN 0 ELSE 3 + JoinedLen(SubSeq(errors, 1, Len(errors) - 1)))
\* variant: the details are not cut
DetailsWhole(errors) == errors

\* ASRClient.recognize: the entries of tried_errors that are whole in details
Details(errors) ==
  SubSeq(errors, 1,
         Cardinality({k \in 1..Len(errors) : JoinedLen(SubSeq(errors, 1, k)) <= DetailsLimit}))

\* the VolcAPIError raised at the end of recognize
ResourceNotGranted(candidates, errors) ==
  [kind |-> "raise", error |-> "VolcAPIError",
   text |-> "ASR resource is not granted for current credentials",
   names |-> candidates, details |-> Details(errors)]

\* the call ends with `result`
Finished(c, result) == [c EXCEPT !.done = TRUE, !.pc = "done", !.result = result]

\* variant: one permission failure ends the fast path
FlashContinueToStandard(c) == [c EXCEPT !.pc = "submit", !.idx = 1]

\* `continue` in _recognize_flash: the next candidate; after the last one the
\* function returns None and _recognize_standard starts
FlashContinue(c) ==
  IF c.idx < Len(c.candidates) THEN [c EXCEPT !.idx = c.idx + 1]
  ELSE [c EXCEPT !.pc = "submit", !.idx = 1]

\* `continue` / `break` in _recognize_standard: the next candidate; after the
\* last one the function returns None and recognize raises
StandardContinue(c) ==
  IF c.idx < Len(c.candidates) THEN [c EXCEPT !.pc = "submit", !.idx = c.idx + 1, !.polls = 0]
  ELSE Finished(c, ResourceNotGranted(c.candidates, c.tried_errors))

Logged(c, stage) ==
  [c EXCEPT !.requests = Append(@, [stage |-> stage, resource_id |-> c.candidates[c.idx]])]
Tried(c, stage, response) ==
  [c EXCEPT !.tried_errors = append_try_error(@, stage, c.candidates[c.idx], response)]

\* recognize, up to the first request
AsrStart ==
  /\ call.fn = "recognize" /\ call.pc = "start"
  /\ call' = IF ~call.arg.appid \/ ~call.arg.access_token
             THEN Finished(call, Raise("VolcAPIError", "ASR appid/access_token is required", <<>>))
             ELSE [call EXCEPT !.pc = "flash", !.idx = 1,
                               !.candidates = candidate_resource_ids(call.arg)]
  /\ CallFrame

\* variant: every error moves on to the next candidate
FlashResponseLenient(resp) ==
  /\ call.fn = "recognize" /\ call.pc = "flash"
  /\ LET c == Logged(call, "flash")
         status_code == extract_status_code(resp)
     IN call' =
          IF resp.status_code >= 400
          THEN IF TRUE
               THEN FlashContinue(Tried(c, "flash", resp))
               ELSE Finished(Tried(c, "flash", resp),
                             Raise("VolcAPIError", "ASR request failed", <<>>))
          ELSE IF status_code # "" /\ status_code # "20000000"
          THEN IF TRUE
               THEN FlashContinue(Tried(c, "flash", resp))
               ELSE Finished(Tried(c, "flash", resp),
                             Raise("VolcAPIError", "ASR business error", <<>>))
          ELSE IF resp.header.ok /\ resp.header.code \notin {"", "20000000"}
          THEN IF TRUE
               THEN FlashContinue(Tried(c, "flash", resp))
               ELSE Finished(c, Raise("VolcAPIError", "ASR business error", <<>>))
          ELSE Finished(c, Return(resp))
  /\ CallFrame

\* _recognize_flash: one request and what follows from its response
FlashResponse(resp) ==
  /\ call.fn = "recognize" /\ call.pc = "flash"
  /\ LET c == Logged(call, "flash")
         status_code == extract_status_code(resp)
     IN call' =
          IF resp.status_code >= 400
          THEN IF is_permission_response(resp)
               THEN FlashContinue(Tried(c, "flash", resp))
               ELSE Finished(Tried(c, "flash", resp),
                             Raise("VolcAPIError", "ASR request failed", <<>>))
          ELSE IF status_code # "" /\ status_code # "20000000"
          THEN IF is_permission_message(extract_status_message(resp))
               THEN FlashContinue(Tried(c, "flash", resp))
               ELSE Finished(Tried(c, "flash", resp),
                             Raise("VolcAPIError", "ASR business error", <<>>))
          ELSE IF resp.header.ok /\ resp.header.code \notin {"", "20000000"}
          THEN IF is_permission_message(resp.header.message)
               THEN FlashContinue(Tried(c, "flash", resp))
               ELSE Finished(c, Raise("VolcAPIError", "ASR business error", <<>>))
          ELSE Finished(c, Return(resp))
  /\ CallFrame

AsrFlash == \E resp \in AsrResponses("flash") : FlashResponse(resp)

\* _recognize_standard: the submit request of a candidate and what follows
\* from its response
SubmitResponse(resp) ==
  /\ call.fn = "recognize" /\ call.pc = "submit"
  /\ LET c == Logged(call, "submit")
         submit_status == extract_status_code(resp)
     IN call' =
          IF resp.status_code >= 400
          THEN IF is_permission_response(resp)
               THEN StandardContinue(Tried(c, "submit", resp))
               ELSE Finished(Tried(c, "submit", resp),
                             Raise("VolcAPIError", "ASR submit failed", <<>>))
          ELSE IF submit_status # "" /\ submit_status # "20000000"
          THEN IF is_permission_message(extract_status_message(resp))
               THEN StandardContinue(Tried(c, "submit", resp))
               ELSE Finished(Tried(c, "submit", resp),
                             Raise("VolcAPIError", "ASR submit business error", <<>>))
          ELSE [c EXCEPT !.pc = "query", !.polls = 0]
  /\ CallFrame

AsrSubmit == \E resp \in AsrResponses("submit") : SubmitResponse(resp)

\* _recognize_standard: the query loop finds the deadline passed (while ...
\* else).  The deadline is at least 5 s after the submit: the first round
\* always queries; before a later round the deadline may have passed.
QueryTimeout ==
  /\ call.fn = "recognize" /\ call.pc = "query"
  /\ call.polls >= 1
  /\ call' = Finished(call, Raise("VolcAPIError", "ASR standard query timed out",
                                  <<call.candidates[call.idx]>>))
  /\ CallFrame

\* _recognize_standard: one round of the query loop; after MaxPolls rounds
\* the deadline has passed
QueryResponse(resp) ==
  /\ call.fn = "recognize" /\ call.pc = "query"
  /\ call.polls < MaxPolls
  /\ LET c == Logged(call, "query")
         query_status == extract_status_code(resp)
     IN call' =
          IF resp.status_code >= 400
          THEN IF is_permission_response(resp)
               THEN StandardContinue(Tried(c, "query", resp))
               ELSE Finished(Tried(c, "query", resp),
                             Raise("VolcAPIError", "ASR query failed", <<>>))
          ELSE IF query_status \in STANDARD_PROCESSING_STATUS
          THEN [c EXCEPT !.polls = c.polls + 1]
          ELSE IF query_status \in STANDARD_TERMINAL_STATUS \/ query_status = ""
          THEN Finished(c, Return(resp))
          ELSE IF is_permission_message(extract_status_message(resp))
               THEN StandardContinue(Tried(c, "query", resp))
               ELSE Finished(Tried(c, "query", resp),
                             Raise("VolcAPIError", "ASR query business error", <<>>))
  /\ CallFrame

AsrQuery ==
  \/ QueryTimeout
  \/ \E resp \in AsrResponses("query") : QueryResponse(resp)

\* the calls made, each with its argument
InitFun ==
  /\ jobs = EmptyMap
  /\ events = [j \in JobIds |-> NoEvents]
  /\ fs = [j \in JobIds |-> [n \in FileNames |-> Absent]]
  /\ queue = <<>>
  /\ worker = [w \in Workers |-> IdleWorker]
  /\ app = [pc |-> "ready", queued_ids |-> <<>>]
  /\ nextId = 0
  /\ restarts = 0
  /\ crashes = 0
  /\ call \in {Pending("normalize_start_stage", in) : in \in StartStageInputs}
         \cup {Pending("validate_script_payload", p) : p \in PayloadInputs}
         \cup {Pending("extract_first_json_object", t) : t \in LlmTexts}
         \cup {Pending("parse_llm_text",
                       [choices |-> c, message |-> m, content |-> k,
                        output_text |-> o, text |-> t]) :
                 c \in {"absent", "other", "dict"},
                 m \in {NoneValue, StrValue(<<" ">>), StrValue(<<" ", "m", "\n">>)},
                 k \in {NoneValue, StrValue(<<>>), StrValue(<<"k">>), IntValue(<<"1">>)},
                 o \in {NoneValue, StrValue(<<" ">>), StrValue(<<"o", " ">>)},
                 t \in {NoneValue, StrValue(<<>>), StrValue(<<"t">>), IntValue(<<"1">>)}}

NextFun ==
  \/ NormalizeStartStage
  \/ ValidateScriptPayload
  \/ ExtractFirstJsonObject
  \/ ParseLlmText

SpecFun == InitFun /\ [][NextFun]_vars

\* ------------------------------------------------ VideoClient (volc_clients.py)
\* _deep_find(data, keys) for a JSON object given as its members in order:
\* the values of the members whose key is in keys
deep_find(data, keys) ==
  LET hits == SelectSeq(data, LAMBDA member : member.key \in keys)
  IN [i \in 1..Len(hits) |-> hits[i].value]

\* variant: the string is returned as it was found
first_string_raw(values) ==
  LET strings == SelectSeq(values, LAMBDA v : v.type = "str" /\ strip(v.value) # <<>>)
  IN IF strings = <<>> THEN NoneValue ELSE strings[1]

\* _first_string: the first value that is a string and not blank, stripped;
\* NoneValue when there is none
first_string(values) ==
  LET strings == SelectSeq(values, LAMBDA v : v.type = "str" /\ strip(v.value) # <<>>)
  IN IF strings = <<>> THEN NoneValue ELSE StrValue(strip(strings[1].value))

\* variant: the legacy payload comes first
submit_payload_candidates_legacy_first(arg) ==
  LET duration == Max(1, arg.duration_s)
      safe_width == Max(1, arg.width)
      safe_height == Max(1, arg.height)
      content == <<[type |-> "text", text |-> arg.prompt]>>
  IN <<[model |-> arg.model, prompt |-> arg.prompt, duration |-> duration,
        resolution |-> <<safe_width, "x", safe_height>>],
       [model |-> arg.model, content |-> content, duration |-> duration,
        width |-> safe_width, height |-> safe_height],
       [model |-> arg.model, content |-> content, duration |-> duration,
        size |-> <<safe_width, "x", safe_height>>],
       [model |-> arg.model, content |-> content, duration |-> duration],
       [model |-> arg.model, content |-> content]>>

\* VideoClient._submit_payload_candidates
submit_payload_candidates(arg) ==
  LET duration == Max(1, arg.duration_s)
      safe_width == Max(1, arg.width)
      safe_height == Max(1, arg.height)
      content == <<[type |-> "text", text |-> arg.prompt]>>
  IN <<[model |-> arg.model, content |-> content, duration |-> duration,
        width |-> safe_width, height |-> safe_height],
       [model |-> arg.model, content |-> content, duration |-> duration,
        size |-> <<safe_width, "x", safe_height>>],
       [model |-> arg.model, content |-> content, duration |-> duration],
       [model |-> arg.model, content |-> content],
       [model |-> arg.model, prompt |-> arg.prompt, duration |-> duration,
        resolution |-> <<safe_width, "x", safe_height>>]>>

\* The responses of the video service in the model: the status and the
\* members of the JSON body
VideoResponses ==
  LET Member(key, value) == [key |-> key, value |-> value]
      VideoResponse(http, data) == [status_code |-> http, data |-> data]
  IN {VideoResponse(200, <<Member("id", StrValue(<<" ", "task-1">>))>>),
      VideoResponse(200, <<Member("id", NoneValue), Member("status", StrValue(<<"queued">>)),
                           Member("task_id", StrValue(<<"task-2">>))>>),
      VideoResponse(200, <<Member("status", StrValue(<<"queued">>))>>),
      VideoResponse(200, <<Member("id", IntValue(<<"7">>))>>),
      VideoResponse(200, <<Member("id", StrValue(<<" ">>))>>),
      VideoResponse(400, <<>>),
      VideoResponse(422, <<>>),
      VideoResponse(404, <<>>),
      VideoResponse(500, <<>>)}

\* VideoClient.submit_generation: one round of the loop over the payloads
SubmitGenerationResponse(resp) ==
  /\ call.fn = "submit_generation" /\ call.pc = "post"
  /\ LET payload == submit_payload_candidates(call.arg)[call.idx]
         c == [call EXCEPT !.requests = Append(@, payload)]
         \* the next payload of the loop; after the last one the loop ends
         \* and submit_generation raises
         NextPayload(d) ==
           IF d.idx < Len(submit_payload_candidates(d.arg)) THEN [d EXCEPT !.idx = d.idx + 1]
           ELSE [d EXCEPT !.done = TRUE, !.pc = "done",
                          !.result = [kind |-> "raise", error |-> "VolcAPIError",
                                      text |-> "Video submit failed after payload fallbacks",
                                      names |-> <<>>, details |-> d.attempt_errors]]
         task_id == first_string(deep_find(resp.data, {"task_id", "id"}))
     IN call' =
          IF resp.status_code >= 400
          THEN LET e == [c EXCEPT !.attempt_errors =
                            Append(@, [attempt |-> c.idx, http |-> resp.status_code,
                                       msg |-> "text"])]
               IN IF resp.status_code \in {400, 422} THEN NextPayload(e)
                  ELSE [e EXCEPT !.done = TRUE, !.pc = "done",
                                 !.result = Raise("VolcAPIError", "Video submit failed", <<>>)]
          ELSE IF Truthy(task_id)
          THEN [c EXCEPT !.done = TRUE, !.pc = "done",
                         !.result = Return(<<task_id, resp.data>>)]
          ELSE NextPayload([c EXCEPT !.attempt_errors =
                              Append(@, [attempt |-> c.idx, http |-> resp.status_code,
                                         msg |-> "missing_task_id"])])
  /\ CallFrame

SubmitGeneration == \E resp \in VideoResponses : SubmitGenerationResponse(resp)

\* The responses to the GET of a generation task in the model: the status
\* and the members of the JSON body
PollResponses ==
  LET Member(key, value) == [key |-> key, value |-> value]
      Body(data) == [status_code |-> 200, data |-> data]
      Status(text) == Body(<<Member("id", StrValue(<<"t">>)), Member("status", StrValue(text))>>)
  IN {Status(<<"s", "u", "c", "c", "e", "e", "d", "e", "d">>),
      Status(<<" ", "S", "u", "c", "c", "e", "s", "s", "\n">>),
      Status(<<"c", "o", "m", "p", "l", "e", "t", "e", "d">>),
      Body(<<Member("state", StrValue(<<"D", "O", "N", "E">>))>>),
      Status(<<"f", "a", "i", "l", "e", "d">>),
      Status(<<"E", "R", "R", "O", "R">>),
      Status(<<"c", "a", "n", "c", "e", "l", "e", "d">>),
      Status(<<"C", "a", "n", "c", "e", "l", "l", "e", "d">>),
      Body(<<Member("status", IntValue(<<"2">>)),
             Member("state", StrValue(<<"f", "a", "i", "l", "e", "d">>))>>),
      Status(<<"r", "u", "n", "n", "i", "n", "g">>),
      Status(<<"s", "u", "c", "c", "e", "e", "d">>),
      Body(<<Member("status", IntValue(<<"2">>))>>),
      Body(<<>>),
      [status_code |-> 404, data |-> <<>>],
      [status_code |-> 500, data |-> <<>>]}

\* variant: the status is compared as it was sent
PollResponseCased(resp, expired) ==
  /\ call.fn = "poll_until_done" /\ call.pc = "get"
  /\ call.polls >= MaxPolls => expired
  /\ LET c == [call EXCEPT !.requests = Append(@, resp)]
         found == first_string(deep_find(resp.data, {"status", "state"}))
         status == IF Truthy(found) THEN found.value ELSE <<>>
         End(result) == [c EXCEPT !.done = TRUE, !.pc = "done", !.result = result]
     IN call' =
          IF resp.status_code >= 400
          THEN End(Raise("VolcAPIError", "Video polling failed", <<>>))
          ELSE IF status \in {<<"s", "u", "c", "c", "e", "e", "d", "e", "d">>,
                              <<"s", "u", "c", "c", "e", "s", "s">>,
                              <<"c", "o", "m", "p", "l", "e", "t", "e", "d">>,
                              <<"d", "o", "n", "e">>}
          THEN End(Return(resp.data))
          ELSE IF status \in {<<"f", "a", "i", "l", "e", "d">>,
                              <<"e", "r", "r", "o", "r">>,
                              <<"c", "a", "n", "c", "e", "l", "e", "d">>,
                              <<"c", "a", "n", "c", "e", "l", "l", "e", "d">>}
          THEN End(Raise("VolcAPIError", "Video generation failed", <<>>))
          ELSE IF expired
          THEN End(Raise("VolcAPIError", "Video generation timed out", <<>>))
          ELSE [c EXCEPT !.polls = c.polls + 1]
  /\ CallFrame

\* variant: the loop does not look at the clock (of the rounds only the
\* parity is kept)
PollResponseForever(resp, expired) ==
  /\ call.fn = "poll_until_done" /\ call.pc = "get"
  /\ LET c == [call EXCEPT !.requests = Append(@, resp)]
         found == first_string(deep_find(resp.data, {"status", "state"}))
         status == lower(IF Truthy(found) THEN found.value ELSE <<>>)
         End(result) == [c EXCEPT !.done = TRUE, !.pc = "done", !.result = result]
     IN call' =
          IF resp.status_code >= 400
          THEN End(Raise("VolcAPIError", "Video polling failed", <<>>))
          ELSE IF status \in {<<"s", "u", "c", "c", "e", "e", "d", "e", "d">>,
                              <<"s", "u", "c", "c", "e", "s", "s">>,
                              <<"c", "o", "m", "p", "l", "e", "t", "e", "d">>,
                              <<"d", "o", "n", "e">>}
          THEN End(Return(resp.data))
          ELSE IF status \in {<<"f", "a", "i", "l", "e", "d">>,
                              <<"e", "r", "r", "o", "r">>,
                              <<"c", "a", "n", "c", "e", "l", "e", "d">>,
                              <<"c", "a", "n", "c", "e", "l", "l", "e", "d">>}
          THEN End(Raise("VolcAPIError", "Video generation failed", <<>>))
          ELSE [call EXCEPT !.polls = 1 - call.polls]
  /\ CallFrame

\* VideoClient.poll_until_done: one round of the loop.  `expired` is whether
\* the deadline has passed when the round looks at the clock; after MaxPolls
\* sleeps it has.
PollResponse(resp, expired) ==
  /\ call.fn = "poll_until_done" /\ call.pc = "get"
  /\ call.polls >= MaxPolls => expired
  /\ LET c == [call EXCEPT !.requests = Append(@, resp)]
         found == first_string(deep_find(resp.data, {"status", "state"}))
         status == lower(IF Truthy(found) THEN found.value ELSE <<>>)
         End(result) == [c EXCEPT !.done = TRUE, !.pc = "done", !.result = result]
     IN call' =
          IF resp.status_code >= 400
          THEN End(Raise("VolcAPIError", "Video polling failed", <<>>))
          ELSE IF status \in {<<"s", "u", "c", "c", "e", "e", "d", "e", "d">>,
                              <<"s", "u", "c", "c", "e", "s", "s">>,
                              <<"c", "o", "m", "p", "l", "e", "t", "e", "d">>,
                              <<"d", "o", "n", "e">>}
          THEN End(Return(resp.data))
          ELSE IF status \in {<<"f", "a", "i", "l", "e", "d">>,
                              <<"e", "r", "r", "o", "r">>,
                              <<"c", "a", "n", "c", "e", "l", "e", "d">>,
                              <<"c", "a", "n", "c", "e", "l", "l", "e", "d">>}
          THEN End(Raise("VolcAPIError", "Video generation failed", <<>>))
          ELSE IF expired
          THEN End(Raise("VolcAPIError", "Video generation timed out", <<>>))
          ELSE [c EXCEPT !.polls = c.polls + 1]
  /\ CallFrame

PollUntilDone == \E resp \in PollResponses, expired \in BOOLEAN : PollResponse(resp, expired)

\* The calls of the clients.  recognize(cfg, audio_file): with and
\* without credentials; the resource id not configured, blank, one of its own,
\* and equal to a fallback, with and without blanks around it.
\* submit_generation(cfg, prompt, duration_s, width, height): durations and
\* sizes below and above the floor of 1.  poll_until_done(cfg, task_id).
\* The other fields are the locals.
InitClient ==
  /\ jobs = EmptyMap
  /\ events = [j \in JobIds |-> NoEvents]
  /\ fs = [j \in JobIds |-> [n \in FileNames |-> Absent]]
  /\ queue = <<>>
  /\ worker = [w \in Workers |-> IdleWorker]
  /\ app = [pc |-> "ready", queued_ids |-> <<>>]
  /\ nextId = 0
  /\ restarts = 0
  /\ crashes = 0
  /\ \/ \E a \in BOOLEAN, t \in BOOLEAN,
          r \in {<<>>, <<" ">>, <<"custom">>, <<" ", "volc.seedasr.auc", "\n">>,
                 <<"volc.bigasr.auc_turbo">>} :
          call = [fn |-> "recognize",
                  arg |-> [appid |-> a, access_token |-> t, resource_id |-> r],
                  done |-> FALSE, result |-> "", pc |-> "start", candidates |-> <<>>,
                  idx |-> 0, polls |-> 0, requests |-> <<>>, tried_errors |-> <<>>]
     \/ \E d \in {0, 5}, w \in {0, 720}, h \in {-1, 1280} :
          call = [fn |-> "submit_generation",
                  arg |-> [model |-> "model", prompt |-> "prompt", duration_s |-> d,
                           width |-> w, height |-> h],
                  done |-> FALSE, result |-> "", pc |-> "post", idx |-> 1,
                  requests |-> <<>>, attempt_errors |-> <<>>]
     \/ call = [fn |-> "poll_until_done", arg |-> [task_id |-> "task-1"],
                done |-> FALSE, result |-> "", pc |-> "get", polls |-> 0,
                requests |-> <<>>]

NextClient ==
  \/ AsrStart
  \/ AsrFlash
  \/ AsrSubmit
  \/ AsrQuery
  \/ SubmitGeneration
  \/ PollUntilDone

SpecClient == InitClient /\ [][NextClient]_vars

\* the calls of InitClient in which recognize is called with credentials and
\* the default resource id
InitFair ==
  /\ InitClient
  /\ call.fn = "recognize" =>
       /\ call.arg.appid /\ call.arg.access_token
       /\ call.arg.resource_id = <<"volc.bigasr.auc_turbo">>

\* Every HTTP call returns and the statement after it is executed: a client
\* that can take a step takes one.
FairClient == InitFair /\ [][NextClient]_vars /\ WF_vars(NextClient)

\* -------------------------------------------------------------- properties
\* a step in which worker w leaves execute_job, by return or by raise
ExitStep(w) ==
  /\ worker[w].pc # "idle"
  /\ worker'[w].pc = "idle"
  /\ worker'[w].exit \in {"return", "raise"}

RaiseStep(w) == ExitStep(w) /\ worker'[w].exit = "raise"

\* the run of worker w, current or last, resolved its start stage
Resolved(w) == worker[w].start_stage # ""

\* the run of worker w returned after set_job_status(COMPLETED)
Completed(w) ==
  worker[w].pc = "idle" /\ worker[w].exit = "return" /\ Resolved(w)

\* the stages the run of worker w has gone through to their end
PassedStages(w) ==
  LET n == IF Completed(w) THEN Len(STAGE_SEQUENCE)
           ELSE IF worker[w].stage = 0 THEN 0 ELSE worker[w].stage - 1
  IN {STAGE_SEQUENCE[i] : i \in 1..n}

FromStart(w) ==
  {st \in RUNNING_STATES : StageIndex(st) >= StageIndex(worker[w].start_stage)}

\* the artifact kinds each stage stores
ProducedKinds(stage) ==
  CASE stage = "asr"               -> {"asr_clip_audio", "transcript_raw"}
    [] stage = "transcript_polish" -> {"transcript_polished"}
    [] stage = "script_gen"        -> {"hook_script_json"}
    [] stage = "video_polling"     -> {"hook_video_raw"}
    [] stage = "postprocess"       -> {"hook_video_norm", "final_video"}
    [] OTHER                       -> {}

\* the file name each artifact kind is stored under
CanonicalName(kind) ==
  CASE kind = "source_video"        -> "source"
    [] kind = "asr_clip_audio"      -> "asr_clip.wav"
    [] kind = "transcript_raw"      -> "transcript_raw.txt"
    [] kind = "transcript_polished" -> "transcript_polished.txt"
    [] kind = "hook_script_json"    -> "hook_script.json"
    [] kind = "hook_video_raw"      -> "hook_video_raw.mp4"
    [] kind = "hook_video_norm"     -> "hook_video_norm.mp4"
    [] kind = "final_video"         -> "final_video.mp4"

\* the keys of dictionary d2 that are new or changed with respect to d
ChangedKeys(d, d2) == {k \in DOMAIN d2 : k \notin DOMAIN d \/ d2[k] # d[k]}

\* C1: on every exit of execute_job, by return or by re-raise, the status of
\* the job (if its record still exists) is completed or failed, never queued
\* and never a stage status.
C1_ExitLeavesTerminal ==
  [][\A w \in Workers :
       ExitStep(w) /\ worker[w].job \in DOMAIN jobs'
         => jobs'[worker[w].job].status \in {"completed", "failed"}]_vars

\* one run failed in or after the asr stage and another run completed
C1_Witness ==
  \E w1, w2 \in Workers :
    /\ worker[w1].pc = "idle" /\ worker[w1].exit = "raise"
    /\ worker[w1].stage >= 2
    /\ worker[w1].job \in DOMAIN jobs
    /\ jobs[worker[w1].job].status = "failed"
    /\ Completed(w2)
    /\ worker[w2].job \in DOMAIN jobs
    /\ jobs[worker[w2].job].status = "completed"

\* C2 as stated: the work of a stage is called iff its index is at least the
\* index of the start stage: no work of a stage before the start stage is
\* called, and every stage from the start stage on that the run has gone
\* through had its work called.
C2_WorkIffFromStart ==
  \A w \in Workers :
    Resolved(w) =>
      /\ worker[w].worked \subseteq FromStart(w)
      /\ PassedStages(w) \cap FromStart(w) \subseteq worker[w].worked

\* C2: the work of a stage other than preprocessing is called iff its index
\* is at least the index of the start stage; the probe of preprocessing is
\* called if preprocessing is at or after the start stage and also, in a
\* skipped preprocessing, exactly when the parent's source_meta is absent or
\* unusable.
C2_WorkFromStartOrProbe ==
  /\ [](\A w \in Workers :
          Resolved(w) =>
            /\ worker[w].worked \ {"preprocessing"} \subseteq FromStart(w)
            /\ PassedStages(w) \cap FromStart(w) \subseteq worker[w].worked)
  /\ [][\A w \in Workers :
          ( /\ worker[w].pc = "body" /\ worker[w].stage = 1
            /\ worker'[w] # worker[w]
            /\ worker[w].start_stage # "preprocessing" )
            => ( "preprocessing" \in worker'[w].worked
                   <=> video_meta_from_dict(worker[w].parent_meta) = Absent )]_vars

\* a rerun from script_gen completed having called the work of exactly the
\* last four stages
C2_Witness ==
  \E w \in Workers :
    /\ Completed(w)
    /\ worker[w].start_stage = "script_gen"
    /\ worker[w].worked = {"script_gen", "video_submit", "video_polling", "postprocess"}

\* C3: when a rerun has completed, every artifact kind of every stage before
\* its start stage is recorded on the rerun, as a file in the rerun's own
\* directory whose content equals the parent's artifact of that kind.
C3_SkippedArtifactsCopied ==
  \A w \in Workers :
    LET r == worker[w].job IN
    ( /\ Completed(w)
      /\ r \in DOMAIN jobs
      /\ "rerun_of_job_id" \in DOMAIN jobs[r].meta )
      => LET p == jobs[r].meta["rerun_of_job_id"] IN
         \A i \in 1..(StageIndex(worker[w].start_stage) - 1) :
           \A kind \in ProducedKinds(STAGE_SEQUENCE[i]) :
             /\ kind \in DOMAIN jobs[r].artifacts
             /\ jobs[r].artifacts[kind].job = r
             /\ ReadFile(fs, jobs[r].artifacts[kind]) # Absent
             /\ ( p \in DOMAIN jobs /\ kind \in DOMAIN jobs[p].artifacts
                    => ReadFile(fs, jobs[r].artifacts[kind])
                         = ReadFile(fs, jobs[p].artifacts[kind]) )

\* a rerun from postprocess completed, its parent still there
C3_Witness ==
  \E w \in Workers :
    /\ Completed(w)
    /\ worker[w].start_stage = "postprocess"
    /\ worker[w].job \in DOMAIN jobs
    /\ "rerun_of_job_id" \in DOMAIN jobs[worker[w].job].meta
    /\ jobs[worker[w].job].meta["rerun_of_job_id"] \in DOMAIN jobs
    /\ jobs[worker[w].job].status = "completed"

\* C4: the statuses one run sets are the seven stage statuses in their order,
\* each at most once, up to some stage, then possibly failed; completed comes
\* only after all seven; and the status of the job is the last one set.
C4_StatusMovesForward ==
  \A w \in Workers :
    LET t == worker[w].trace
        n == Len(t)
        stages == IF n > 0 /\ t[n] \in {"failed", "completed"} THEN n - 1 ELSE n
    IN /\ stages <= 7
       /\ \A i \in 1..stages :
            t[i] = <<"preprocessing", "asr", "transcript_polish", "script_gen",
                     "video_submit", "video_polling", "postprocess">>[i]
       /\ (n > 0 /\ t[n] = "completed" => stages = 7)
       /\ (n > 0 /\ worker[w].job \in DOMAIN jobs => jobs[worker[w].job].status = t[n])

\* a run went through all seven stage statuses and completed
C4_Witness ==
  \E w \in Workers : worker[w].trace = STAGE_SEQUENCE \o <<"completed">>

\* C5: when a run raises, the job (if its record still exists) gets status
\* failed and the raised message as error_message, exactly one event is
\* appended, a failed event with that message, the run ends there without
\* setting another status or storing another artifact, and a job becomes
\* failed only in a step in which its run raises.
C5_FailureRecordedAndRaised ==
  [][ /\ \A w \in Workers :
           LET j == worker[w].job IN
           RaiseStep(w) /\ j \in DOMAIN jobs'
             => /\ jobs'[j].status = "failed"
                /\ jobs'[j].error_message = worker'[w].raised
                /\ worker'[w].raised # None
                /\ events'[j].last = Event("failed", worker'[w].raised)
                /\ events'[j].count = events[j].count + 1
                /\ worker'[w].trace = Append(worker[w].trace, "failed")
                /\ jobs'[j].artifacts = jobs[j].artifacts
                /\ jobs'[j].meta = jobs[j].meta
      /\ \A j \in DOMAIN jobs \cap DOMAIN jobs' :
           jobs[j].status # "failed" /\ jobs'[j].status = "failed"
             => \E w \in Workers : RaiseStep(w) /\ worker[w].job = j ]_vars

\* the video service failed in video_polling: the job is failed with that message
C5_Witness ==
  \E w \in Workers :
    LET j == worker[w].job IN
    /\ worker[w].pc = "idle" /\ worker[w].exit = "raise"
    /\ worker[w].raised = Msg("poll failed", "", j)
    /\ Len(worker[w].trace) = 7
    /\ j \in DOMAIN jobs
    /\ jobs[j].status = "failed"
    /\ jobs[j].error_message = worker[w].raised
    /\ "hook_script_json" \in DOMAIN jobs[j].artifacts
    /\ "hook_video_raw" \notin DOMAIN jobs[j].artifacts

\* C6 as stated: a job whose status is terminal never gets a stage status
\* again.
C6_TerminalIsFinal ==
  [][\A j \in DOMAIN jobs \cap DOMAIN jobs' :
       jobs[j].status \in TERMINAL_STATES => jobs'[j].status \notin RUNNING_STATES]_vars

\* C7 as stated: no two workers are inside execute_job for the same job.
C7_SingleExecution ==
  \A w1, w2 \in Workers :
    w1 # w2 /\ worker[w1].pc # "idle" /\ worker[w2].pc # "idle"
      => worker[w1].job # worker[w2].job

C10_MapsOnlyGrow ==
  [][\A j \in DOMAIN jobs \cap DOMAIN jobs' :
       /\ DOMAIN jobs[j].artifacts \subseteq DOMAIN jobs'[j].artifacts
       /\ DOMAIN jobs[j].meta \subseteq DOMAIN jobs'[j].meta
       /\ Cardinality(ChangedKeys(jobs[j].artifacts, jobs'[j].artifacts)) <= 1
       /\ ChangedKeys(jobs[j].meta, jobs'[j].meta)
            \in {{}, {"source_meta"}, {"video_task_id"}}
       /\ \A k \in {"rerun_of_job_id", "rerun_start_stage"} \cap DOMAIN jobs[j].meta :
            jobs'[j].meta[k] = jobs[j].meta[k] ]_vars

\* a rerun failed in postprocess with its rerun keys, both copied meta keys
\* and six artifacts in place
C10_Witness ==
  \E w \in Workers :
    LET j == worker[w].job IN
    /\ worker[w].pc = "idle" /\ worker[w].exit = "raise"
    /\ worker[w].stage = 7
    /\ j \in DOMAIN jobs
    /\ DOMAIN jobs[j].meta
         = {"rerun_of_job_id", "rerun_start_stage", "source_meta", "video_task_id"}
    /\ Cardinality(DOMAIN jobs[j].artifacts) >= 6

\* the messages of the errors an external call raises, and of an
\* unavailable toolchain
ExternalFailures ==
  {"ffmpeg unavailable", "probe failed", "extract failed", "asr failed",
   "polish failed", "script failed", "submit failed", "poll failed",
   "normalize failed", "concat failed"}

\* the run of worker w starts at preprocessing and its job record exists
FullRun(w) ==
  /\ worker[w].start_stage = "preprocessing"
  /\ worker[w].job \in DOMAIN jobs

\* C11: in a run from preprocessing of a job that is not deleted, the files
\* every external call reads are there, so each call can succeed; the run
\* fails only with the error of an external call (or of the toolchain check);
\* and when it returns, the job is completed with all eight artifact kinds
\* recorded and their files present.
C11_FullRunCompletes ==
  \A w \in Workers :
    FullRun(w) =>
      LET j == worker[w].job IN
      /\ worker[w].pc \in {"check", "body", "body2", "finish"}
           => ReadFile(fs, jobs[j].source_path) # Absent
      /\ At(w, "body2", "asr")
           => ReadFile(fs, [job |-> j, name |-> "asr_clip.wav"]) # Absent
      /\ At(w, "body", "postprocess")
           => ReadFile(fs, [job |-> j, name |-> "hook_video_raw.mp4"]) # Absent
      /\ At(w, "body2", "postprocess")
           => ReadFile(fs, [job |-> j, name |-> "hook_video_norm.mp4"]) # Absent
      /\ worker[w].pc = "idle" /\ worker[w].exit = "raise"
           => worker[w].raised.text \in ExternalFailures
      /\ Completed(w)
           => /\ jobs[j].status = "completed"
              /\ DOMAIN jobs[j].artifacts =
                   {"source_video", "asr_clip_audio", "transcript_raw",
                    "transcript_polished", "hook_script_json", "hook_video_raw",
                    "hook_video_norm", "final_video"}
              /\ \A kind \in DOMAIN jobs[j].artifacts :
                   ReadFile(fs, jobs[j].artifacts[kind]) # Absent

\* an uploaded job ran from preprocessing, every call succeeded, and it is
\* completed with eight artifacts
C11_Witness ==
  \E w \in Workers :
    /\ Completed(w)
    /\ FullRun(w)
    /\ "rerun_of_job_id" \notin DOMAIN jobs[worker[w].job].meta
    /\ worker[w].worked = RUNNING_STATES
    /\ jobs[worker[w].job].status = "completed"
    /\ Cardinality(DOMAIN jobs[worker[w].job].artifacts) = 8

\* C12: the resolved start stage of a value is the stage whose name the value
\* spells, in any letter case and with any whitespace around it, and it is
\* preprocessing for every other value: None, the empty string, whitespace,
\* a number, a word that is no stage name (queued, completed, failed,
\* canceled, unknown) and a stage name with a blank inside; the result is
\* always one of the seven stages.
C12_StartStageResolution ==
  call.fn = "normalize_start_stage" /\ call.done =>
    /\ call.result \in
         {"preprocessing", "asr", "transcript_polish", "script_gen",
          "video_submit", "video_polling", "postprocess"}
    /\ call.result =
         IF call.arg.exact /\ call.arg.base \in
              {"preprocessing", "asr", "transcript_polish", "script_gen",
               "video_submit", "video_polling", "postprocess"}
         THEN call.arg.base ELSE "preprocessing"

\* " VIDEO_SUBMIT" followed by a tab and a newline resolved to video_submit
C12_Witness ==
  /\ call.fn = "normalize_start_stage" /\ call.done
  /\ call.arg.value =
       StrValue(<<" ", "V", "I", "D", "E", "O", "_", "S", "U", "B", "M", "I", "T",
                  "\t", "\n">>)
  /\ call.result = "video_submit"

\* a text with a character that is not whitespace
NonBlank(value) ==
  value.type = "str" /\ \E i \in 1..Len(value.value) : value.value[i] \notin Whitespace

\* the six fields of a dict are populated: two arrays, four non-blank strings
Populated(payload) ==
  /\ REQUIRED_FIELDS \subseteq DOMAIN payload.items
  /\ payload.items["shot_list"].type = "list"
  /\ payload.items["style_tags"].type = "list"
  /\ \A key \in {"hook_title", "visual_prompt", "narration", "safety_notes"} :
       NonBlank(payload.items[key])

Validated == call.fn = "validate_script_payload" /\ call.done

\* C13 (as stated): a payload is accepted if and only if it is an object with
\* exactly the six required keys, shot_list and style_tags arrays and the four
\* text fields non-blank strings; every other payload raises a schema error.
C13_AcceptedIffExactlySix ==
  Validated =>
    LET conforms == /\ call.arg.type = "dict"
                    /\ DOMAIN call.arg.items = REQUIRED_FIELDS
                    /\ Populated(call.arg)
    IN IF conforms THEN call.result.kind = "return"
       ELSE call.result.kind = "raise" /\ call.result.error = "ScriptSchemaError"

\* C14: a payload whose six required fields are populated is returned
\* unchanged; a payload missing one or more required fields raises
\* ScriptSchemaError with a message that names exactly the missing fields, all
\* of them.
C14_ReturnedOrAllMissingNamed ==
  Validated /\ call.arg.type = "dict" =>
    LET missing == REQUIRED_FIELDS \ DOMAIN call.arg.items
    IN /\ Populated(call.arg) => call.result = Return(call.arg)
       /\ missing # {} =>
            /\ call.result.kind = "raise"
            /\ call.result.error = "ScriptSchemaError"
            /\ call.result.text = "missing fields"
            /\ {call.result.names[i] : i \in 1..Len(call.result.names)} = missing
            /\ Len(call.result.names) = Cardinality(missing)

\* a payload of hook_title alone was rejected with the five other names
C14_Witness ==
  /\ Validated
  /\ call.arg = DictValue([key \in {"hook_title"} |-> StrValue(<<"a">>)])
  /\ call.result.kind = "raise"
  /\ Len(call.result.names) = 5

Extracted == call.fn = "extract_first_json_object" /\ call.done

\* some span of the text from a "{" to a "}" is a JSON value
SomeSpanParses(text) ==
  \E i \in 1..Len(text) : \E k \in i..Len(text) :
    text[i] = "{" /\ text[k] = "}" /\ json_loads(SubSeq(text, i, k)).ok

\* C15 (as stated): the serialised object gives back the object; the object
\* is recovered from a code fence and from between prose; and the call raises
\* when no span from "{" to "}" parses.
C15_RecoversObject ==
  Extracted =>
    /\ call.arg.form \in {"plain", "fenced", "prose"} =>
         call.result = Return(call.arg.object)
    /\ ~SomeSpanParses(call.arg.text) => call.result.kind = "raise"

\* the stage a request string names
RequestedStage(raw) ==
  CASE raw = "VIDEO_SUBMIT" -> "video_submit"
    [] raw = " asr " -> "asr"
    [] OTHER -> raw

\* C16: a rerun request that is served creates a job under an id that no job,
\* event or file had before and that is not the parent's; the job is queued,
\* has the parent's asr and hook clip seconds, and its meta is exactly
\* rerun_of_job_id = the parent and rerun_start_stage = the requested stage;
\* its source file is in the rerun's own directory, at another path than the
\* parent's, with the content of the parent's source; the parent's record and
\* files, and every other job, are as before.
C16_RerunCreation ==
  [][\A p \in JobIds, raw \in RequestStages :
       RerunJob(ApiJobs, p, raw) =>
         LET r == nextId' IN
         /\ r \notin DOMAIN jobs /\ r # p
         /\ events[r] = NoEvents
         /\ \A n \in FileNames : fs[r][n] = Absent
         /\ DOMAIN jobs' = DOMAIN jobs \cup {r}
         /\ jobs'[r].status = "queued"
         /\ jobs'[r].asr_clip_seconds = jobs[p].asr_clip_seconds
         /\ jobs'[r].hook_clip_seconds = jobs[p].hook_clip_seconds
         /\ DOMAIN jobs'[r].meta = {"rerun_of_job_id", "rerun_start_stage"}
         /\ jobs'[r].meta["rerun_of_job_id"] = p
         /\ jobs'[r].meta["rerun_start_stage"] = RequestedStage(raw)
         /\ jobs'[r].source_path.job = r
         /\ jobs'[r].source_path # jobs[p].source_path
         /\ ReadFile(fs', jobs'[r].source_path) # Absent
         /\ ReadFile(fs', jobs'[r].source_path) = ReadFile(fs, jobs[p].source_path)
         /\ \A k \in DOMAIN jobs : jobs'[k] = jobs[k] /\ fs'[k] = fs[k]
    ]_vars

\* job 2 is a queued rerun from video_submit of job 1, which was uploaded
\* with 120 and 20 clip seconds
C16_Witness ==
  /\ {1, 2} \subseteq DOMAIN jobs
  /\ jobs[1].asr_clip_seconds = 120 /\ jobs[1].hook_clip_seconds = 20
  /\ jobs[2].status = "queued"
  /\ DOMAIN jobs[2].meta = {"rerun_of_job_id", "rerun_start_stage"}
  /\ jobs[2].meta["rerun_of_job_id"] = 1
  /\ jobs[2].meta["rerun_start_stage"] = "video_submit"
  /\ jobs[2].asr_clip_seconds = 120
  /\ ReadFile(fs, jobs[2].source_path) = ReadFile(fs, jobs[1].source_path)

\* C17 (as stated): in every committed state every job has events and the
\* newest of them carries the status of the job.
C17_LastEventTracksStatus ==
  \A j \in DOMAIN jobs :
    /\ events[j].count >= 1
    /\ events[j].last.status = jobs[j].status

\* the step is one of worker w, taken from position pc of execute_job
StepAt(w, pc) == worker[w].pc = pc /\ worker'[w] # worker[w]

\* C18: when execute_job starts on a job whose meta.rerun_of_job_id names no
\* job, that step ends the run by raising: the job goes from queued to failed
\* with an error message that names the parent, one failed event is appended,
\* failed is the only status the run has set, no stage's work was called, the
\* job has no artifact, and no file is written.
C18_MissingParentFailsAtOnce ==
  [][\A w \in Workers :
       LET j == worker[w].job
           parent == jobs[j].meta["rerun_of_job_id"]
       IN StepAt(w, "start") /\ j \in DOMAIN jobs
          /\ "rerun_of_job_id" \in DOMAIN jobs[j].meta /\ parent \notin DOMAIN jobs
          => /\ RaiseStep(w)
             /\ jobs[j].status = "queued" /\ jobs'[j].status = "failed"
             /\ jobs'[j].error_message = Msg("parent job missing", "", parent)
             /\ worker'[w].raised = jobs'[j].error_message
             /\ events'[j].count = events[j].count + 1
             /\ events'[j].last = Event("failed", jobs'[j].error_message)
             /\ worker'[w].trace = <<"failed">>
             /\ worker'[w].worked = {}
             /\ jobs'[j].artifacts = EmptyMap
             /\ fs' = fs
    ]_vars

\* a rerun whose parent was deleted has failed so
C18_Witness ==
  \E w \in Workers :
    LET j == worker[w].job IN
    /\ worker[w].pc = "idle" /\ worker[w].exit = "raise"
    /\ worker[w].raised.text = "parent job missing"
    /\ j \in DOMAIN jobs
    /\ jobs[j].meta["rerun_of_job_id"] = worker[w].raised.job
    /\ worker[w].raised.job \notin DOMAIN jobs
    /\ jobs[j].status = "failed"
    /\ jobs[j].artifacts = EmptyMap
    /\ worker[w].trace = <<"failed">>

\* C19: the step of execute_job that looks at the source file and at the
\* media tools raises whenever the source file is absent, and it can raise
\* when the file is there (the tools are unavailable); when it raises, the
\* job, if its record still exists, goes from queued to failed with one failed
\* event; failed is the only status the run has set, no stage's work was
\* called, no artifact is recorded and no file is written.
C19_NoSourceOrToolsFailsBeforeStages ==
  [][\A w \in Workers :
       LET j == worker[w].job IN
       StepAt(w, "check") =>
         /\ ~SourceExists(w) => RaiseStep(w)
         /\ RaiseStep(w) =>
              /\ worker'[w].raised.text \in {"source video missing", "ffmpeg unavailable"}
              /\ worker'[w].raised.text = "source video missing" <=> ~SourceExists(w)
              /\ worker'[w].worked = {}
              /\ fs' = fs
              /\ worker[w].trace = <<>>
              /\ IF j \in DOMAIN jobs
                 THEN /\ jobs[j].status = "queued" /\ jobs'[j].status = "failed"
                      /\ jobs'[j].error_message = worker'[w].raised
                      /\ events'[j].count = events[j].count + 1
                      /\ events'[j].last = Event("failed", worker'[w].raised)
                      /\ worker'[w].trace = <<"failed">>
                      /\ jobs'[j].artifacts = EmptyMap
                 ELSE worker'[w].trace = <<>> /\ jobs' = jobs /\ events' = events
    ]_vars

\* a job whose source file was removed has failed without any artifact
C19_Witness ==
  \E w \in Workers :
    LET j == worker[w].job IN
    /\ worker[w].pc = "idle" /\ worker[w].exit = "raise"
    /\ worker[w].raised.text = "source video missing"
    /\ j \in DOMAIN jobs
    /\ ReadFile(fs, jobs[j].source_path) = Absent
    /\ jobs[j].status = "failed"
    /\ jobs[j].artifacts = EmptyMap
    /\ worker[w].trace = <<"failed">>

\* the artifact a skipped stage must take from the parent, and the position
\* of execute_job at which it does; "" for a stage that needs none
RequiredKind(stage) ==
  CASE stage = "asr" -> "transcript_raw"
    [] stage = "transcript_polish" -> "transcript_polished"
    [] stage = "script_gen" -> "hook_script_json"
    [] stage = "video_polling" -> "hook_video_raw"
    [] OTHER -> ""
ReusePc(stage) == IF stage = "asr" THEN "body2" ELSE "body"

\* worker w is about to reuse `kind` and the parent's map has no such kind,
\* or the file it names is absent
ParentLacks(w, kind) ==
  \/ kind \notin DOMAIN worker[w].parent_artifacts
  \/ ReadFile(fs, worker[w].parent_artifacts[kind]) = Absent

\* C20: when a skipped stage comes to reuse its required artifact
\* (transcript_raw, transcript_polished, hook_script_json, hook_video_raw) and
\* the parent's artifact map lacks the kind or the file is absent, the step
\* raises an error that names the kind and the parent job; the job is set
\* failed with that message; nothing is recorded under the kind on the rerun
\* and no file is written.
C20_MissingRequiredArtifactFails ==
  [][\A w \in Workers :
       LET j == worker[w].job
           stage == STAGE_SEQUENCE[worker[w].stage]
           kind == RequiredKind(stage)
       IN worker[w].stage >= 1 /\ kind # "" /\ StepAt(w, ReusePc(stage))
          /\ ~RunsStage(w) /\ ParentLacks(w, kind)
          => /\ RaiseStep(w)
             /\ worker'[w].raised.kind = kind
             /\ worker'[w].raised.job = worker[w].parent_job_id
             /\ worker[w].parent_job_id # 0
             /\ worker'[w].raised.text \in {"parent lacks artifact", "parent file missing"}
             /\ worker'[w].raised.text = "parent lacks artifact"
                  <=> kind \notin DOMAIN worker[w].parent_artifacts
             /\ worker'[w].worked = worker[w].worked
             /\ fs' = fs
             /\ j \in DOMAIN jobs =>
                  /\ jobs'[j].status = "failed"
                  /\ jobs'[j].error_message = worker'[w].raised
                  /\ kind \notin DOMAIN jobs'[j].artifacts
                  /\ jobs'[j].artifacts = jobs[j].artifacts
    ]_vars

\* a rerun failed at the skipped polish stage: the parent's file was gone
C20_Witness ==
  \E w \in Workers :
    LET j == worker[w].job IN
    /\ worker[w].pc = "idle" /\ worker[w].exit = "raise"
    /\ worker[w].raised.text = "parent file missing"
    /\ worker[w].raised.kind = "transcript_polished"
    /\ j \in DOMAIN jobs
    /\ worker[w].raised.job = jobs[j].meta["rerun_of_job_id"]
    /\ jobs[j].status = "failed"
    /\ "transcript_polished" \notin DOMAIN jobs[j].artifacts
    /\ "transcript_raw" \in DOMAIN jobs[j].artifacts

\* C21: every completed job has hook_video_norm and final_video in its own
\* directory, both made by this job's own normalize and concat calls (never
\* the parent's files), the normalized clip from the job's current
\* hook_video_raw and the final video from that clip; a run that completed
\* did the postprocess work whatever its start stage; and the normalize step
\* works with the source_meta the job's meta holds.
C21_PostprocessAlwaysRuns ==
  /\ [](\A j \in DOMAIN jobs :
          jobs[j].status = "completed" =>
            /\ {"hook_video_raw", "hook_video_norm", "final_video"}
                 \subseteq DOMAIN jobs[j].artifacts
            /\ jobs[j].artifacts["hook_video_norm"] = JobFile(j, "hook_video_norm.mp4")
            /\ jobs[j].artifacts["final_video"] = JobFile(j, "final_video.mp4")
            /\ ReadFile(fs, jobs[j].artifacts["hook_video_norm"]) =
                 Content("hook_video_norm",
                         ReadFile(fs, jobs[j].artifacts["hook_video_raw"]).by, j)
            /\ ReadFile(fs, jobs[j].artifacts["final_video"]) =
                 Content("final_video",
                         ReadFile(fs, jobs[j].artifacts["hook_video_norm"]).by, j))
  /\ [](\A w \in Workers : Completed(w) => "postprocess" \in worker[w].worked)
  /\ [][\A w \in Workers :
          StepAt(w, "body") /\ worker[w].stage = 7 /\ ~RaiseStep(w) =>
            /\ worker[w].job \in DOMAIN jobs
            /\ "source_meta" \in DOMAIN jobs[worker[w].job].meta
            /\ worker[w].source_meta = jobs[worker[w].job].meta["source_meta"]
            /\ worker[w].source_meta.kind = "video_meta"
     ]_vars

\* a rerun from postprocess completed while its parent has a normalized clip
\* and a final video of its own; the rerun's two files are its own products
C21_Witness ==
  \E w \in Workers :
    LET j == worker[w].job IN
    /\ Completed(w)
    /\ worker[w].start_stage = "postprocess"
    /\ worker[w].worked = {"postprocess"}
    /\ j \in DOMAIN jobs /\ jobs[j].status = "completed"
    /\ jobs[j].meta["rerun_of_job_id"] \in DOMAIN jobs
    /\ "final_video" \in DOMAIN jobs[jobs[j].meta["rerun_of_job_id"]].artifacts
    /\ ReadFile(fs, jobs[j].artifacts["final_video"]).src = j
    /\ ReadFile(fs, jobs[jobs[j].meta["rerun_of_job_id"]].artifacts["final_video"]).src
         = jobs[j].meta["rerun_of_job_id"]

\* the parent's meta, as read when the run of worker w started, has a video
\* task id
ParentHasTask(w) ==
  /\ "video_task_id" \in DOMAIN worker[w].parent_meta
  /\ worker[w].parent_meta["video_task_id"] # Absent

\* C22: a run whose start stage is video_polling or postprocess never calls
\* the submit; at its video_submit step, if the parent's meta has a video
\* task id, the rerun's meta.video_task_id becomes that id, and otherwise the
\* step raises and the run ends there, failed; and a video_polling step that
\* runs polls the id in the job's meta: the clip it stores stems from that
\* task.
C22_SkippedSubmitTakesParentTask ==
  /\ [](\A w \in Workers :
          worker[w].start_stage \in {"video_polling", "postprocess"} =>
            "video_submit" \notin worker[w].worked)
  /\ [][\A w \in Workers :
          LET j == worker[w].job IN
          StepAt(w, "body") /\ worker[w].stage = 5 /\ ~RunsStage(w) =>
            IF ParentHasTask(w)
            THEN j \in DOMAIN jobs =>
                   /\ ~RaiseStep(w)
                   /\ jobs'[j].meta["video_task_id"] = worker[w].parent_meta["video_task_id"]
                   /\ worker'[w].task_id = worker[w].parent_meta["video_task_id"]
            ELSE /\ RaiseStep(w)
                 /\ worker'[w].stage = 5
                 /\ worker'[w].raised.text = "parent lacks video_task_id"
                 /\ worker'[w].raised.job = worker[w].parent_job_id
                 /\ j \in DOMAIN jobs =>
                      /\ jobs'[j].status = "failed"
                      /\ "video_task_id" \notin DOMAIN jobs'[j].meta
     ]_vars
  /\ [][\A w \in Workers :
          LET j == worker[w].job IN
          StepAt(w, "body") /\ worker[w].stage = 6 /\ RunsStage(w) /\ ~RaiseStep(w) =>
            /\ worker[w].task_id = jobs[j].meta["video_task_id"]
            /\ worker[w].start_stage = "video_polling" =>
                 worker[w].task_id = worker[w].parent_meta["video_task_id"]
            /\ ReadFile(fs', JobFile(j, "hook_video_raw.mp4")).by = worker[w].task_id.by
     ]_vars

\* a rerun from video_polling completed on its parent's task: it polled and
\* postprocessed, and never submitted
C22_Witness ==
  \E w \in Workers :
    LET j == worker[w].job
        p == jobs[j].meta["rerun_of_job_id"]
    IN /\ Completed(w)
       /\ worker[w].start_stage = "video_polling"
       /\ worker[w].worked = {"video_polling", "postprocess"}
       /\ j \in DOMAIN jobs /\ p \in DOMAIN jobs
       /\ jobs[j].meta["video_task_id"] = jobs[p].meta["video_task_id"]
       /\ ReadFile(fs, jobs[j].artifacts["hook_video_raw"]) = Content("hook_video_raw", p, j)

\* C23: at a skipped preprocessing step the run takes the parent's
\* source_meta when the parent's meta, as read at the start of the run, has a
\* usable one, and otherwise probes the rerun's own source file; the step
\* raises only when that probe fails or the job's record is gone, never when
\* the parent's source_meta is usable and never with an error about the
\* parent; and when it does not raise, the rerun's meta holds the source_meta
\* the run goes on with.
C23_SkippedPreprocessingFallsBack ==
  [][\A w \in Workers :
       LET j == worker[w].job
           reused == video_meta_from_dict(worker[w].parent_meta)
       IN StepAt(w, "body") /\ worker[w].stage = 1 /\ ~RunsStage(w) =>
            /\ RaiseStep(w) =>
                 /\ worker'[w].raised.text \in {"probe failed", "job not found"}
                 /\ worker'[w].raised.job = j
                 /\ worker'[w].raised.text = "probe failed" => reused = Absent
                 /\ reused # Absent => j \notin DOMAIN jobs
            /\ ~RaiseStep(w) =>
                 /\ worker'[w].source_meta =
                      IF reused # Absent THEN worker[w].parent_meta["source_meta"]
                      ELSE Content("video_meta", ReadFile(fs, jobs[j].source_path).by, 0)
                 /\ "preprocessing" \in worker'[w].worked <=> reused = Absent
                 /\ "source_meta" \in DOMAIN jobs'[j].meta
                 /\ jobs'[j].meta["source_meta"] = worker'[w].source_meta
                 /\ worker'[w].source_meta.kind = "video_meta"
    ]_vars

\* a rerun from asr of a parent that never got a source_meta went past its
\* skipped preprocessing on a probe of its own source
C23_Witness ==
  \E w \in Workers :
    LET j == worker[w].job
        p == jobs[j].meta["rerun_of_job_id"]
    IN /\ worker[w].start_stage = "asr"
       /\ worker[w].stage >= 2
       /\ j \in DOMAIN jobs /\ p \in DOMAIN jobs
       /\ "source_meta" \notin DOMAIN jobs[p].meta
       /\ "preprocessing" \in worker[w].worked
       /\ jobs[j].meta["source_meta"] = Content("video_meta", p, 0)


\* ---- the ASR client ----
Recognizing == call.fn = "recognize" /\ call.pc # "start" /\ call.candidates # <<>>
NonBlankId(cfg) == SelectSeq(cfg.resource_id, LAMBDA ch : ch \notin Whitespace)
IndexIn(seq, x) == CHOOSE i \in 1..Len(seq) : seq[i] = x
StageRequests(stage) == SelectSeq(call.requests, LAMBDA r : r.stage = stage)
StandardRequests == SelectSeq(call.requests, LAMBDA r : r.stage # "flash")

\* C24: the candidate list is the configured resource id, when it is not
\* blank, followed by the fixed fallbacks in their order, without duplicates;
\* recognize requests the fast path for the candidates in that order, and the
\* standard path, in the same order, only after the fast path has been tried
\* for every candidate: every fast-path request precedes every standard one.
C24_CandidatesInOrderFastFirst ==
  Recognizing =>
    LET cands == call.candidates
        own == NonBlankId(call.arg)
        rest == SelectSeq(RESOURCE_FALLBACKS, LAMBDA id : own = <<>> \/ id # own[1])
        reqs == call.requests
        flash == StageRequests("flash")
        standard == StandardRequests
    IN /\ cands = own \o rest
       /\ \A i, k \in 1..Len(cands) : cands[i] = cands[k] => i = k
       /\ \A i \in 1..Len(RESOURCE_FALLBACKS) :
            \E k \in 1..Len(cands) : cands[k] = RESOURCE_FALLBACKS[i]
       /\ reqs = flash \o standard
       /\ Len(flash) <= Len(cands)
       /\ \A i \in 1..Len(flash) : flash[i].resource_id = cands[i]
       /\ standard # <<>> => Len(flash) = Len(cands)
       /\ \A i \in 1..Len(standard) :
            /\ \E k \in 1..Len(cands) : standard[i].resource_id = cands[k]
            /\ i > 1 => IndexIn(cands, standard[i - 1].resource_id)
                          <= IndexIn(cands, standard[i].resource_id)
            /\ standard[i].stage = "query" =>
                 i > 1 /\ standard[i - 1].resource_id = standard[i].resource_id
            /\ standard[i].stage = "submit" /\ i > 1 =>
                 standard[i - 1].resource_id # standard[i].resource_id
       /\ standard # <<>> => standard[1].resource_id = cands[1]
       /\ \A i \in 2..Len(standard) :
            IndexIn(cands, standard[i].resource_id)
              <= IndexIn(cands, standard[i - 1].resource_id) + 1
C24_Witness ==
  /\ call.fn = "recognize" /\ call.done
  /\ call.arg.resource_id = <<" ", "volc.seedasr.auc", "\n">>
  /\ call.candidates = <<"volc.seedasr.auc", "volc.bigasr.auc_turbo", "volc.bigasr.auc">>
  /\ Len(StageRequests("flash")) = 3
  /\ Len(StageRequests("submit")) = 3
  /\ call.requests[Len(call.requests)].stage = "query"


\* an error response: an HTTP error status or a business status code, in the
\* headers or in the body, that is not the success code
ErrorResponse(resp) ==
  \/ resp.status_code >= 400
  \/ extract_status_code(resp) \notin {"", "20000000"}
  \/ resp.header.ok /\ resp.header.code \notin {"", "20000000"}
MovesOn == ~call'.done /\ (call'.idx = call.idx + 1 \/ call'.pc = "submit")
RaisesAtOnce ==
  /\ call'.done /\ call'.result.kind = "raise"
  /\ Len(call'.requests) = Len(call.requests) + 1

\* C25: in the fast path an error response (HTTP error status or non-success
\* business status code) moves on to the next candidate only when it is a
\* permission-class failure; any other error response raises at once, and
\* after it no request is made for any candidate in either path.
C25_FlashSkipsOnlyOnPermission ==
  /\ [][\A resp \in AsrResponses("flash") :
          FlashResponse(resp) /\ ErrorResponse(resp) =>
            /\ MovesOn => is_permission_response(resp)
            /\ ~is_permission_response(resp) => RaisesAtOnce
            /\ MovesOn \/ RaisesAtOnce]_vars
  /\ [][~call.done]_vars
C25_Witness ==
  /\ call.fn = "recognize" /\ call.done /\ call.result.kind = "raise"
  /\ call.result.text = "ASR request failed"
  /\ Len(call.requests) = 2
  /\ call.tried_errors[1].http = 403
  /\ call.tried_errors[2].http = 500


\* the candidates before the k-th were requested in order on the path of
\* `stage`, and each left an entry in tried_errors
PrecedingTried(stage, k) ==
  LET reqs == StageRequests(stage)
      errs == SelectSeq(call.tried_errors,
                        LAMBDA e : IF stage = "flash" THEN e.stage = "flash" ELSE e.stage # "flash")
  IN /\ Len(reqs) >= k - 1
     /\ \A i \in 1..(k - 1) : reqs[i].resource_id = call.candidates[i]
     /\ Len(errs) = k - 1
     /\ \A i \in 1..(k - 1) : errs[i].resource_id = call.candidates[i]
FlashSuccess(resp) == FlashResponse(resp) /\ ~ErrorResponse(resp)
QuerySuccess(resp) ==
  /\ QueryResponse(resp) /\ ~ErrorResponse(resp)
  /\ extract_status_code(resp) \notin STANDARD_PROCESSING_STATUS
Aggregated ==
  /\ call.fn = "recognize" /\ call.done /\ call.result.kind = "raise"
  /\ call.result.text = "ASR resource is not granted for current credentials"

\* C26: when every candidate before the k-th failed with a permission-class
\* failure and the k-th succeeds, the preceding candidates were all requested,
\* in order, the call returns the payload of the k-th response, and no request
\* follows, for a later candidate or on the other path; the aggregated error
\* is raised only when the last candidate failed as well.
C26_ReturnsFirstSuccess ==
  /\ [][\A resp \in AsrResponses("flash") :
          FlashSuccess(resp) =>
            /\ PrecedingTried("flash", call.idx)
            /\ call'.done /\ call'.result = Return(resp)
            /\ call'.requests = Append(call.requests,
                 [stage |-> "flash", resource_id |-> call.candidates[call.idx]])
            /\ Len(call'.requests) = call.idx]_vars
  /\ [][\A resp \in AsrResponses("query") :
          QuerySuccess(resp) =>
            /\ PrecedingTried("flash", Len(call.candidates) + 1)
            /\ PrecedingTried("submit", call.idx)
            /\ call'.done /\ call'.result = Return(resp)
            /\ call'.requests = Append(call.requests,
                 [stage |-> "query", resource_id |-> call.candidates[call.idx]])]_vars
  /\ [][~call.done]_vars
  /\ [](Aggregated =>
          LET last == call.candidates[Len(call.candidates)]
          IN /\ call.requests[Len(call.requests)].resource_id = last
             /\ call.requests[Len(call.requests)].stage # "flash"
             /\ call.tried_errors[Len(call.tried_errors)].resource_id = last
             /\ call.tried_errors[Len(call.tried_errors)].stage # "flash")
C26_Witness ==
  /\ call.fn = "recognize" /\ call.done /\ call.result.kind = "return"
  /\ Len(call.candidates) = 4
  /\ Len(call.requests) = 3
  /\ call.requests[3] = [stage |-> "flash", resource_id |-> "volc.seedasr.auc"]
  /\ Len(call.tried_errors) = 2


\* C27: in the standard path, when the deadline passes for a candidate whose
\* status is still processing, only that candidate has failed: the call does
\* not end with the timeout, and the next candidate, when there is one, is
\* submitted.
C27_TimeoutFailsOneCandidate ==
  [][QueryTimeout =>
       /\ ~(call'.done /\ call'.result.kind = "raise"
            /\ call'.result.text = "ASR standard query timed out")
       /\ call.idx < Len(call.candidates) =>
            ~call'.done /\ call'.pc = "submit" /\ call'.idx = call.idx + 1]_vars

\* C28: the standard path returns a payload only at a query response with a
\* terminal business status; a query response whose status is neither
\* processing nor terminal does not end the call with a returned payload.
C28_ReturnsOnlyOnTerminalStatus ==
  [][\A resp \in AsrResponses("query") :
       QueryResponse(resp) /\ call'.done /\ call'.result.kind = "return" =>
         extract_status_code(resp) \in STANDARD_TERMINAL_STATUS]_vars


\* the response is a failure after which the standard path goes on
StandardPermissionFailure(resp) ==
  \/ resp.status_code >= 400 /\ is_permission_response(resp)
  \/ /\ resp.status_code < 400
     /\ extract_status_code(resp) \notin
          {"", "20000000"} \cup STANDARD_PROCESSING_STATUS \cup STANDARD_TERMINAL_STATUS
     /\ is_permission_message(extract_status_message(resp))
StandardStep(resp) == SubmitResponse(resp) \/ QueryResponse(resp)
\* the aggregated error is raised exactly at a permission-class failure of
\* the last candidate on the standard path, and then tried_errors has one
\* entry for each candidate on each path, in order, and the error names all
\* candidates
AggregatedWhenAllFailed ==
  /\ [][\A resp \in AsrResponses("submit") \cup AsrResponses("query") :
          StandardStep(resp) =>
            (Aggregated' <=> /\ call.idx = Len(call.candidates)
                             /\ StandardPermissionFailure(resp))]_vars
  /\ [][AsrStart \/ AsrFlash \/ QueryTimeout => ~Aggregated']_vars
  /\ [][~call.done]_vars
  /\ [](Aggregated =>
          LET n == Len(call.candidates)
          IN /\ call.result.names = call.candidates
             /\ Len(call.tried_errors) = 2 * n
             /\ \A i \in 1..n :
                  /\ call.tried_errors[i].stage = "flash"
                  /\ call.tried_errors[i].resource_id = call.candidates[i]
                  /\ call.tried_errors[n + i].stage # "flash"
                  /\ call.tried_errors[n + i].resource_id = call.candidates[i])

\* C29 as stated: when every candidate on both paths ended in a
\* permission-class failure, and in no other situation, recognize raises the
\* aggregated error, which names all tried resource ids and contains a trace
\* entry for each attempt.
C29_AggregatedErrorTracesEveryAttempt ==
  /\ AggregatedWhenAllFailed
  /\ [](Aggregated => call.result.details = call.tried_errors)

\* C29, amended: when every candidate on both paths ended in a
\* permission-class failure, and in no other situation, recognize raises the
\* aggregated error, which names all tried resource ids and contains the trace
\* entries of the attempts, in order, as far as they fit in the first
\* DetailsLimit characters of the trace joined by " | ".
C29_AggregatedErrorTracesUpToLimit ==
  /\ AggregatedWhenAllFailed
  /\ [](Aggregated =>
          \E k \in 0..Len(call.tried_errors) :
            /\ call.result.details = SubSeq(call.tried_errors, 1, k)
            /\ JoinedLen(SubSeq(call.tried_errors, 1, k)) <= DetailsLimit
            /\ k < Len(call.tried_errors) =>
                 JoinedLen(SubSeq(call.tried_errors, 1, k + 1)) > DetailsLimit)
C29_Witness ==
  /\ Aggregated
  /\ Len(call.tried_errors) = 6
  /\ Len(call.result.details) = 5


\* ---- the video client ----
\* C30: submit_generation sends the next payload variant only after a response
\* with status 400 or 422; any other error status raises at once, with no
\* further variant sent; and after a response without an error status no
\* further variant is sent.
C30_NextVariantOnlyOn400Or422 ==
  [][\A resp \in VideoResponses :
       SubmitGenerationResponse(resp) =>
         /\ ~call'.done /\ call'.idx = call.idx + 1 => resp.status_code \in {400, 422}
         /\ resp.status_code >= 400 /\ resp.status_code \notin {400, 422} =>
              call'.done /\ call'.result.kind = "raise"
         /\ resp.status_code < 400 => call'.done]_vars


\* the task ids of a response: the strings under task_id or id that are not
\* blank, without the blanks around them
TaskIds(resp) ==
  LET found == SelectSeq(resp.data, LAMBDA m : /\ m.key \in {"task_id", "id"}
                                               /\ m.value.type = "str"
                                               /\ \E i \in 1..Len(m.value.value) :
                                                    m.value.value[i] \notin Whitespace)
  IN [i \in 1..Len(found) |->
        SelectSeq(found[i].value.value, LAMBDA ch : ch \notin Whitespace)]
SubmitEnded == call.fn = "submit_generation" /\ call.done
OneEntryPerAttempt(c, n) ==
  /\ Len(c.requests) = n
  /\ \A i \in 1..n : c.requests[i] = submit_payload_candidates(c.arg)[i]
  /\ \A i \in 1..Len(c.attempt_errors) : c.attempt_errors[i].attempt = i

\* C31: submit_generation returns the task id of the first variant whose
\* response has a (non-blank) string under task_id or id, and sends no request
\* after it; one attempt entry has then been recorded for each earlier
\* variant.  At most five requests are sent; when all five variants were sent
\* and none gave a task id, one aggregated error lists the status of every
\* attempt.
C31_ReturnsFirstTaskId ==
  /\ [][\A resp \in VideoResponses :
          SubmitGenerationResponse(resp) =>
            /\ resp.status_code < 400 /\ TaskIds(resp) # <<>> =>
                 /\ call'.done /\ call'.result.kind = "return"
                 /\ call'.result.value[1] = StrValue(TaskIds(resp)[1])
                 /\ call'.result.value[2] = resp.data
                 /\ OneEntryPerAttempt(call', call.idx)
                 /\ Len(call'.attempt_errors) = call.idx - 1
            /\ call'.done /\ call'.result.kind = "return" =>
                 resp.status_code < 400 /\ TaskIds(resp) # <<>>
            /\ call'.done /\ call'.result.kind = "raise"
                 /\ call'.result.text = "Video submit failed after payload fallbacks" =>
                 /\ OneEntryPerAttempt(call', 5)
                 /\ Len(call'.result.details) = 5
                 /\ call'.result.details = call'.attempt_errors
                 /\ call'.result.details[5].http = resp.status_code]_vars
  /\ [][~call.done]_vars
  /\ [](call.fn = "submit_generation" => Len(call.requests) <= 5)
  /\ [](call.fn = "submit_generation" =>
          \A i \in 1..Len(call.attempt_errors) :
            call.attempt_errors[i].http \in {200, 400, 422, 404, 500})
C31_Witness ==
  /\ SubmitEnded /\ call.result.kind = "return"
  /\ Len(call.requests) = 3
  /\ Len(call.attempt_errors) = 2
  /\ call.attempt_errors[1].http = 422 /\ call.attempt_errors[2].http = 422
  /\ call.result.value[1] = StrValue(<<"task-2">>)


AtLeastOne(n) == IF n < 1 THEN 1 ELSE n

\* C32: for every prompt, duration, width and height the payload variants
\* are the same five shapes in the same order: content with duration, width
\* and height; content with duration and a size string; content with
\* duration; content only; the legacy prompt with duration and a resolution
\* string.  The first has no prompt key, the legacy shape is last, and
\* duration, width and height are at least 1.  The requests sent are these
\* payloads in this order.
C32_FivePayloadShapes ==
  call.fn = "submit_generation" =>
    LET p == submit_payload_candidates(call.arg)
        text == <<[type |-> "text", text |-> call.arg.prompt]>>
        d == AtLeastOne(call.arg.duration_s)
        w == AtLeastOne(call.arg.width)
        h == AtLeastOne(call.arg.height)
    IN /\ Len(p) = 5
       /\ DOMAIN p[1] = {"model", "content", "duration", "width", "height"}
       /\ DOMAIN p[2] = {"model", "content", "duration", "size"}
       /\ DOMAIN p[3] = {"model", "content", "duration"}
       /\ DOMAIN p[4] = {"model", "content"}
       /\ DOMAIN p[5] = {"model", "prompt", "duration", "resolution"}
       /\ \A i \in 1..5 : p[i].model = call.arg.model
       /\ \A i \in 1..4 : p[i].content = text
       /\ \A i \in {1, 2, 3, 5} : p[i].duration = d /\ p[i].duration >= 1
       /\ p[1].width = w /\ p[1].height = h /\ w >= 1 /\ h >= 1
       /\ p[2].size = <<w, "x", h>>
       /\ p[5].prompt = call.arg.prompt
       /\ p[5].resolution = <<w, "x", h>>
       /\ \A i \in 1..Len(call.requests) : call.requests[i] = p[i]
C32_Witness ==
  /\ SubmitEnded
  /\ call.arg.duration_s = 0 /\ call.arg.width = 0 /\ call.arg.height = -1
  /\ Len(call.requests) = 5
  /\ call.requests[1].width = 1
  /\ call.requests[5].resolution = <<1, "x", 1>>


\* the status a poll response shows: the first non-blank string under status
\* or state, without the blanks around it, in capitals; <<>> when none
ObservedStatus(resp) ==
  LET found == SelectSeq(resp.data, LAMBDA m : /\ m.key \in {"status", "state"}
                                               /\ m.value.type = "str"
                                               /\ \E i \in 1..Len(m.value.value) :
                                                    m.value.value[i] \notin Whitespace)
  IN IF found = <<>> THEN <<>>
     ELSE upper(SelectSeq(found[1].value.value, LAMBDA ch : ch \notin Whitespace))
SuccessStatus(resp) ==
  ObservedStatus(resp) \in {<<"S", "U", "C", "C", "E", "E", "D", "E", "D">>,
                            <<"S", "U", "C", "C", "E", "S", "S">>,
                            <<"C", "O", "M", "P", "L", "E", "T", "E", "D">>,
                            <<"D", "O", "N", "E">>}
FailureStatus(resp) ==
  ObservedStatus(resp) \in {<<"F", "A", "I", "L", "E", "D">>,
                            <<"E", "R", "R", "O", "R">>,
                            <<"C", "A", "N", "C", "E", "L", "E", "D">>,
                            <<"C", "A", "N", "C", "E", "L", "L", "E", "D">>}
Raised(c, text) == c.done /\ c.result.kind = "raise" /\ c.result.text = text

\* C33: poll_until_done returns the payload as soon as the status, compared
\* without regard to case, is succeeded, success, completed or done; raises a
\* generation-failed error as soon as it is failed, error, canceled or
\* cancelled; keeps polling while the status is in neither set and the
\* deadline has not passed; raises a timeout error once the deadline has
\* passed without such a status; and never returns a payload whose status is
\* not in the success set.
C33_PollsUntilTerminalStatus ==
  [][\A resp \in PollResponses, expired \in BOOLEAN :
       PollResponse(resp, expired) /\ resp.status_code < 400 =>
         /\ SuccessStatus(resp) => call'.done /\ call'.result = Return(resp.data)
         /\ FailureStatus(resp) => Raised(call', "Video generation failed")
         /\ ~SuccessStatus(resp) /\ ~FailureStatus(resp) =>
              IF expired THEN Raised(call', "Video generation timed out")
              ELSE ~call'.done /\ call'.pc = "get"
         /\ call'.done /\ call'.result.kind = "return" => SuccessStatus(resp)]_vars
C33_Witness ==
  /\ call.fn = "poll_until_done" /\ call.done /\ call.result.kind = "return"
  /\ Len(call.requests) = 3
  /\ ~SuccessStatus(call.requests[1]) /\ ~FailureStatus(call.requests[1])
  /\ ObservedStatus(call.requests[3]) = <<"S", "U", "C", "C", "E", "S", "S">>


LlmCandidates(payload) ==
  (IF payload.choices = "dict" THEN <<payload.message, payload.content>> ELSE <<>>)
  \o <<payload.output_text>>
  \o (IF payload.choices = "dict" THEN <<payload.message, payload.content>> ELSE <<>>)
  \o <<payload.text>>
NonBlankCandidates(payload) ==
  SelectSeq(LlmCandidates(payload),
            LAMBDA v : v.type = "str" /\ \E i \in 1..Len(v.value) : v.value[i] \notin Whitespace)

\* C35: parse_llm_text returns the first non-blank candidate in the order
\* choices[0].message.content, choices[0].content, output_text, then the
\* strings under text/content keys of the payload, without the blanks around
\* it, and returns the empty string only when no candidate is non-blank.
C35_FirstNonBlankCandidate ==
  call.fn = "parse_llm_text" /\ call.done =>
    LET good == NonBlankCandidates(call.arg)
    IN call.result =
         Return(StrValue(IF good = <<>> THEN <<>>
                         ELSE SelectSeq(good[1].value, LAMBDA ch : ch \notin Whitespace)))

\* ---------------------------------------------------------------- C36
\* C36: when a run raises and the job's record exists, the error_message
\* stored is the message of the innermost error: the message of the cause
\* when the raised PipelineError was raised from another exception (the
\* reused transcript could not be read, the reused script JSON could not be
\* parsed), the message of the raised error itself otherwise.
C36_ErrorMessageOfInnermostError ==
  [][\A w \in Workers :
       LET j == worker[w].job IN
       RaiseStep(w) /\ j \in DOMAIN jobs'
         => jobs'[j].error_message =
              IF worker'[w].cause # None THEN worker'[w].cause ELSE worker'[w].raised
    ]_vars

\* ---------------------------------------------------------------- C37
\* C37: every path in a job's artifact map lies inside the directory of that
\* job, never inside its parent's; and when a job is deleted while a rerun of
\* it is completed, the rerun is kept and the file of every one of its
\* artifacts is still there after the deletion.
C37_ArtifactsInsideOwnDirectory ==
  /\ [](\A j \in DOMAIN jobs :
          \A kind \in DOMAIN jobs[j].artifacts : jobs[j].artifacts[kind].job = j)
  /\ [][\A p \in DOMAIN jobs \ DOMAIN jobs' :
          \A r \in DOMAIN jobs :
            /\ r # p
            /\ jobs[r].status = "completed"
            /\ "rerun_of_job_id" \in DOMAIN jobs[r].meta
            /\ jobs[r].meta["rerun_of_job_id"] = p
            => /\ r \in DOMAIN jobs'
               /\ jobs'[r] = jobs[r]
               /\ \A kind \in DOMAIN jobs'[r].artifacts :
                    ReadFile(fs', jobs'[r].artifacts[kind]) # Absent
      ]_vars

\* the parent of a completed rerun from video_polling was deleted: the
\* rerun's reused and produced artifacts are all on the disk
C37_Witness ==
  /\ 1 \notin DOMAIN jobs
  /\ 2 \in DOMAIN jobs
  /\ jobs[2].status = "completed"
  /\ "rerun_of_job_id" \in DOMAIN jobs[2].meta
  /\ jobs[2].meta["rerun_of_job_id"] = 1
  /\ jobs[2].meta["rerun_start_stage"] = "video_polling"
  /\ {"source_video", "transcript_raw", "transcript_polished", "hook_script_json",
      "final_video"} \subseteq DOMAIN jobs[2].artifacts
  /\ \A kind \in DOMAIN jobs[2].artifacts :
       ReadFile(fs, jobs[2].artifacts[kind]) # Absent

\* ---------------------------------------------------------------- C38
\* what a rerun that skips `stage` takes from its parent is recorded on job j:
\* the artifact of the stage with its file, or meta.video_task_id
RecordedFor(js, files, j, stage) ==
  IF stage = "video_submit" THEN "video_task_id" \in DOMAIN js[j].meta
  ELSE \/ RequiredKind(stage) = ""
       \/ /\ RequiredKind(stage) \in DOMAIN js[j].artifacts
          /\ ReadFile(files, js[j].artifacts[RequiredKind(stage)]) # Absent

\* the messages of the errors raised for lack of something of the parent
LackOfParent == {"parent lacks artifact", "parent file missing", "parent lacks video_task_id"}

\* C38: when a run sets the status of its job to a stage s, everything a
\* rerun would take from the job for the stages before s (transcript_raw,
\* transcript_polished, hook_script_json, video_task_id, hook_video_raw) is
\* recorded on the job, whether the run did those stages or skipped them;
\* and a rerun of a job whose run failed in stage s, loaded after that
\* failure with a start stage not after s, does not raise for lack of a
\* parent artifact or parent meta value.
C38_RerunFindsWhatItSkips ==
  [][/\ \A w \in Workers :
          LET j == worker[w].job
              t == worker'[w].trace
          IN /\ t # worker[w].trace
             /\ Len(t) > 0
             /\ t[Len(t)] \notin {"failed", "completed"}
             => /\ j \in DOMAIN jobs'
                /\ jobs'[j].status = t[Len(t)]
                /\ \A i \in 1..(StageIndex(t[Len(t)]) - 1) :
                     RecordedFor(jobs', fs', j, STAGE_SEQUENCE[i])
     /\ \A w, v \in Workers :
          LET p == worker[v].job
              t == worker[v].trace
          IN /\ v # w
             /\ RaiseStep(w)
             /\ worker[v].pc = "idle" /\ worker[v].exit = "raise"
             /\ Len(t) >= 2 /\ t[Len(t)] = "failed"
             /\ p \in DOMAIN jobs /\ jobs[p].status = "failed"
             /\ worker[w].parent_job_id = p
             /\ worker[w].parent_artifacts = jobs[p].artifacts
             /\ worker[w].parent_meta = jobs[p].meta
             /\ StageIndex(worker[w].start_stage) <= StageIndex(t[Len(t) - 1])
             => worker'[w].raised.text \notin LackOfParent
    ]_vars

\* the parent failed in video_polling; its rerun from video_polling, run by
\* the other worker, took the parent's task id and everything before it and
\* is past the stage it started from
C38_Witness ==
  \E w, v \in Workers :
    LET r == worker[w].job
        p == worker[v].job
    IN /\ v # w
       /\ worker[v].pc = "idle" /\ worker[v].exit = "raise"
       /\ worker[v].trace = <<"preprocessing", "asr", "transcript_polish", "script_gen",
                              "video_submit", "video_polling", "failed">>
       /\ p \in DOMAIN jobs /\ r \in DOMAIN jobs
       /\ worker[w].parent_job_id = p
       /\ worker[w].parent_artifacts = jobs[p].artifacts
       /\ worker[w].start_stage = "video_polling"
       /\ worker[w].pc = "enter" /\ worker[w].stage = 7
       /\ jobs[r].meta["video_task_id"] = jobs[p].meta["video_task_id"]
       /\ "hook_video_raw" \in DOMAIN jobs[r].artifacts

\* ---------------------------------------------------------------- C39
\* C39: in every committed state of a job record, error_message is set if
\* and only if the status is failed: a queued, running or completed job
\* carries no error message and a failed job always carries one, also while
\* execute_job runs again on a job that is already failed.
C39_ErrorMessageIffFailed ==
  \A j \in DOMAIN jobs : jobs[j].error_message # None <=> jobs[j].status = "failed"

\* ---------------------------------------------------------------- C40
\* C40: the event stream of a job yields `end` only when the job is terminal
\* and every event of the job has been yielded before: whatever the order
\* of the stream's two reads and the engine's commits, the stream does not
\* end short of the final completed/failed event.
C40_EndAfterEveryEvent ==
  [][call.fn = "stream_job_events" /\ ~call.done /\ call'.done
       => /\ get_job(jobs, call.arg)
          /\ jobs[call.arg].status \in TERMINAL_STATES
          /\ call'.last_id = events[call.arg].count
    ]_vars

====
